---------------------------- MODULE Spec2Model ----------------------------
(***************************************************************************)
(* A model of simple-http-server (package main, the final snapshot with    *)
(* the gzip middleware): the handler registry, the accept loop of          *)
(* Server.Start, the per-connection worker (handleRequest), the built-in    *)
(* endpoints and gzipMiddleware.                                            *)
(*                                                                         *)
(* Strings are sequences of one-character strings, so that prefix tests,    *)
(* trimming and splitting are computed as the Go code computes them.        *)
(***************************************************************************)
EXTENDS Integers, Sequences, FiniteSets, TLC

(***************************************************************************)
(* Bounds of the model.                                                     *)
(***************************************************************************)
\* most characters an endpoint prefix of the registry specification has after
\* its leading "/"
MaxPrefixLen == 3
\* most characters a request path of the registry specification has after its
\* leading "/"
MaxPathLen == 3
\* most entries the registry specification lets the registry grow to
MaxHandlers == 3

Alphabet == {"/", "a"}

\* every string over Alphabet of length at most n
Strs(n) == UNION {[1..k -> Alphabet] : k \in 0..n}

\* s has no empty segment ("//")
NoEmptySegment(s) == \A i \in 1..(Len(s) - 1) : ~(s[i] = "/" /\ s[i + 1] = "/")

\* endpoint prefixes and request paths start with "/" (RequestLine.Path); the
\* prefixes registered are clean ones: "/", "/a", "/a/", "/aa", "/a/a", ...
Prefixes == {p \in {<<"/">> \o s : s \in Strs(MaxPrefixLen)} : NoEmptySegment(p)}
Paths == {<<"/">> \o s : s \in Strs(MaxPathLen)}

\* handler values used by the registry specification; Nil is Go's nil Handler
Nil == "nil"
HandlerIds == {"h1", "h2"}

\* connections the accept loop accepts in one run of the server
MaxConns == 2

Conns == 1..MaxConns

\* most RegisterMiddleware calls of the middleware-chain specification
MaxMiddlewares == 2
MaxLineLen == 7
MaxHeaderLines == 2

VARIABLES
    endPointHandlers,   \* Server.endPointHandlers: sequence of [prefix, handler]
    middlewares,        \* Server.middlewares: sequence of middleware names
    lastCall,           \* the most recent registry call and what it returned
    listener,           \* Server.listener: "none", "listening", "failed" (net.Listen
                        \* returned an error) or "closed"
    acceptErr,          \* the err of the most recent s.listener.Accept(): "nil",
                        \* "transient" or "closed" (the listener was closed)
    crashed,            \* the process was ended by a panic no goroutine recovered
    pc,                 \* per connection: "idle", "handling" (worker goroutine
                        \* spawned, handleRequest not yet returned) or "closed"
    files,              \* the served directory: file name -> content, or Absent
    lastRun             \* what the worker that finished last did, in order

vars == <<endPointHandlers, middlewares, lastCall, listener, acceptErr, crashed, pc,
          files, lastRun>>

serverVars == <<middlewares, listener, acceptErr, crashed, pc, files, lastRun>>

(***************************************************************************)
(* strings.HasPrefix                                                        *)
(***************************************************************************)
HasPrefix(s, p) == Len(p) <= Len(s) /\ SubSeq(s, 1, Len(p)) = p

(***************************************************************************)
(* Handler registry: Server.RegisterHandler and getHandler                  *)
(***************************************************************************)
\* index of the first entry whose prefix equals endpointPrefix, 0 if none
\* (the loop of RegisterHandler)
IndexOfPrefix(ep, endpointPrefix) ==
    IF \E i \in 1..Len(ep) : ep[i].prefix = endpointPrefix
    THEN CHOOSE i \in 1..Len(ep) :
            /\ ep[i].prefix = endpointPrefix
            /\ \A j \in 1..(i - 1) : ep[j].prefix # endpointPrefix
    ELSE 0

\* the comparison function handed to slices.SortFunc: len(b.prefix) - len(a.prefix)
cmpPrefixLen(a, b) == Len(b.prefix) - Len(a.prefix)

\* a faulty variant of the sort: the slice is left in insertion order
SortFuncResultsUnsorted(s) == {s}

\* slices.SortFunc is not stable: every arrangement of s that is ordered by
\* the comparison function is a possible result
SortFuncResults(s) ==
    {t \in {[i \in 1..Len(s) |-> s[f[i]]] : f \in Permutations(1..Len(s))} :
        \A i \in 1..(Len(s) - 1) : cmpPrefixLen(t[i], t[i + 1]) <= 0}

\* a faulty variant of RegisterHandler: it appends without looking for the prefix
RegisterHandlerAlwaysAppends(ep, endpointPrefix, handler) ==
    SortFuncResults(Append(ep, [prefix |-> endpointPrefix, handler |-> handler]))

\* the registries RegisterHandler may leave behind
RegisterHandlerResults(ep, endpointPrefix, handler) ==
    LET i == IndexOfPrefix(ep, endpointPrefix) IN
    IF i # 0
    THEN {[ep EXCEPT ![i].handler = handler]}
    ELSE SortFuncResults(Append(ep, [prefix |-> endpointPrefix, handler |-> handler]))

\* a faulty variant of getHandler: "/" is tested like every other prefix
getHandlerIndexNoRootCase(ep, path) ==
    IF \E i \in 1..Len(ep) : HasPrefix(path, ep[i].prefix)
    THEN CHOOSE i \in 1..Len(ep) :
            /\ HasPrefix(path, ep[i].prefix)
            /\ \A j \in 1..(i - 1) : ~HasPrefix(path, ep[j].prefix)
    ELSE 0

\* whether the loop body of getHandler returns at entry e
entryMatches(e, path) ==
    IF e.prefix = <<"/">> THEN path = <<"/">> ELSE HasPrefix(path, e.prefix)

\* index of the entry at which getHandler's loop returns, 0 when it falls
\* through to "return nil"
getHandlerIndex(ep, path) ==
    IF \E i \in 1..Len(ep) : entryMatches(ep[i], path)
    THEN CHOOSE i \in 1..Len(ep) :
            /\ entryMatches(ep[i], path)
            /\ \A j \in 1..(i - 1) : ~entryMatches(ep[j], path)
    ELSE 0

getHandler(ep, path) ==
    LET i == getHandlerIndex(ep, path) IN
    IF i = 0 THEN Nil ELSE ep[i].handler

\* no registry call was made yet
NoCall == [op |-> "none"]

(***************************************************************************)
(* The string functions of the Go standard library that the code calls,     *)
(* on sequences of characters.                                              *)
(***************************************************************************)
\* strings.TrimRight(s, cutset)
RECURSIVE TrimRight(_, _)
TrimRight(s, cutset) ==
    IF s # <<>> /\ s[Len(s)] \in cutset
    THEN TrimRight(SubSeq(s, 1, Len(s) - 1), cutset)
    ELSE s

\* strings.TrimLeft(s, cutset)
RECURSIVE TrimLeft(_, _)
TrimLeft(s, cutset) ==
    IF s # <<>> /\ s[1] \in cutset THEN TrimLeft(Tail(s), cutset) ELSE s

WhiteSpace == {" ", "\t", "\r", "\n"}

\* strings.TrimSpace(s)
TrimSpace(s) == TrimLeft(TrimRight(s, WhiteSpace), WhiteSpace)

\* strings.Index(s, sep) + 1: where sep first occurs in s, 0 when it does not
Index(s, sep) ==
    LET at == {i \in 1..(Len(s) - Len(sep) + 1) : SubSeq(s, i, i + Len(sep) - 1) = sep}
    IN  IF at = {} THEN 0 ELSE CHOOSE i \in at : \A j \in at : i <= j

\* strings.Split(s, sep) for a non-empty sep: the pieces of s between all the
\* occurrences of sep
RECURSIVE Split(_, _)
Split(s, sep) ==
    LET i == Index(s, sep) IN
    IF i = 0
    THEN <<s>>
    ELSE <<SubSeq(s, 1, i - 1)>> \o Split(SubSeq(s, i + Len(sep), Len(s)), sep)

UpperCase ==
    <<"A", "B", "C", "D", "E", "F", "G", "H", "I", "J", "K", "L", "M",
      "N", "O", "P", "Q", "R", "S", "T", "U", "V", "W", "X", "Y", "Z">>
LowerCase ==
    <<"a", "b", "c", "d", "e", "f", "g", "h", "i", "j", "k", "l", "m",
      "n", "o", "p", "q", "r", "s", "t", "u", "v", "w", "x", "y", "z">>

UpperToLower ==
    [c \in {UpperCase[i] : i \in DOMAIN UpperCase} |->
        LowerCase[CHOOSE i \in DOMAIN UpperCase : UpperCase[i] = c]]

\* strings.ToLower(s), for ASCII
ToLower(s) ==
    [i \in 1..Len(s) |-> IF s[i] \in DOMAIN UpperToLower THEN UpperToLower[s[i]] ELSE s[i]]

Digits == {"0", "1", "2", "3", "4", "5", "6", "7", "8", "9"}

DigitValue ==
    [c \in Digits |->
        CASE c = "0" -> 0 [] c = "1" -> 1 [] c = "2" -> 2 [] c = "3" -> 3
          [] c = "4" -> 4 [] c = "5" -> 5 [] c = "6" -> 6 [] c = "7" -> 7
          [] c = "8" -> 8 [] c = "9" -> 9]

RECURSIVE DecimalValue(_)
DecimalValue(s) ==
    IF s = <<>> THEN 0
    ELSE 10 * DecimalValue(SubSeq(s, 1, Len(s) - 1)) + DigitValue[s[Len(s)]]

\* a faulty variant of the conversion: the error is dropped and the value is 0
AtoiIgnoresError(s) ==
    LET d == IF s # <<>> /\ s[1] \in {"+", "-"} THEN Tail(s) ELSE s IN
    IF d = <<>> \/ \E i \in 1..Len(d) : d[i] \notin Digits
    THEN [ok |-> TRUE, n |-> 0]
    ELSE [ok |-> TRUE,
          n |-> IF s[1] = "-" THEN 0 - DecimalValue(d) ELSE DecimalValue(d)]

\* strconv.Atoi(s): an optional sign and at least one digit, nothing else
\* (the values of the model are far below the int range)
Atoi(s) ==
    LET d == IF s # <<>> /\ s[1] \in {"+", "-"} THEN Tail(s) ELSE s IN
    IF d = <<>> \/ \E i \in 1..Len(d) : d[i] \notin Digits
    THEN [ok |-> FALSE, n |-> 0]
    ELSE [ok |-> TRUE,
          n |-> IF s[1] = "-" THEN 0 - DecimalValue(d) ELSE DecimalValue(d)]


\* path.Clean, on the elements between the slashes of a path: "" and "." are
\* dropped, ".." takes the element before it away, stays in front of a
\* relative path and is dropped at the root
RECURSIVE CleanElems(_, _, _)
CleanElems(elems, done, rooted) ==
    IF elems = <<>> THEN done
    ELSE LET e == Head(elems) IN
         IF e = <<>> \/ e = <<".">>
         THEN CleanElems(Tail(elems), done, rooted)
         ELSE IF e = <<".", ".">>
         THEN IF done # <<>> /\ done[Len(done)] # <<".", ".">>
              THEN CleanElems(Tail(elems), SubSeq(done, 1, Len(done) - 1), rooted)
              ELSE IF rooted
              THEN CleanElems(Tail(elems), done, rooted)
              ELSE CleanElems(Tail(elems), Append(done, e), rooted)
         ELSE CleanElems(Tail(elems), Append(done, e), rooted)

\* the elements with "/" between them
RECURSIVE JoinElems(_)
JoinElems(elems) ==
    IF elems = <<>> THEN <<>>
    ELSE IF Len(elems) = 1 THEN elems[1]
    ELSE elems[1] \o <<"/">> \o JoinElems(Tail(elems))

\* path.Clean(p)
Clean(p) ==
    LET rooted == p # <<>> /\ p[1] = "/"
        body == JoinElems(CleanElems(Split(p, <<"/">>), <<>>, rooted))
    IN  IF rooted THEN <<"/">> \o body
        ELSE IF body = <<>> THEN <<".">> ELSE body

\* path.Join(a, b): empty elements are ignored, the result is cleaned
Join(a, b) ==
    IF a = <<>> /\ b = <<>> THEN <<>>
    ELSE IF a = <<>> THEN Clean(b)
    ELSE IF b = <<>> THEN Clean(a)
    ELSE Clean(a \o <<"/">> \o b)
(***************************************************************************)
(* Wire codec: the request line, the header block                           *)
(***************************************************************************)
\* a faulty variant of parseRequestLine: runs of spaces separate the tokens
parseRequestLineFields(line) ==
    LET NonEmpty(t) == t # <<>>
        sl == SelectSeq(Split(TrimRight(line, {"\r", "\n"}), <<" ">>), NonEmpty)
    IN
    IF Len(sl) # 3
    THEN [ok |-> FALSE, Method |-> <<>>, Path |-> <<>>, Protocol |-> <<>>]
    ELSE [ok |-> TRUE, Method |-> sl[1], Path |-> sl[2], Protocol |-> sl[3]]

\* parseRequestLine: [ok, Method, Path, Protocol]
parseRequestLine(line) ==
    LET sl == Split(TrimRight(line, {"\r", "\n"}), <<" ">>) IN
    IF Len(sl) # 3
    THEN [ok |-> FALSE, Method |-> <<>>, Path |-> <<>>, Protocol |-> <<>>]
    ELSE [ok |-> TRUE, Method |-> sl[1], Path |-> sl[2], Protocol |-> sl[3]]

\* bufio.Reader.ReadString('\n') on a stream whose remaining bytes are all
\* there (the client sent them and closed its side): the bytes through the
\* first "\n", or what is left and io.EOF
ReadString(stream) ==
    LET i == Index(stream, <<"\n">>) IN
    IF i = 0
    THEN [err |-> TRUE, line |-> stream, rest |-> <<>>]
    ELSE [err |-> FALSE, line |-> SubSeq(stream, 1, i),
          rest |-> SubSeq(stream, i + 1, Len(stream))]

\* a faulty variant of the map assignment: a key that is there keeps its value
SetHeaderKeepsFirst(headers, key, value) ==
    [k \in DOMAIN headers \cup {key} |-> IF k \in DOMAIN headers THEN headers[k] ELSE value]

\* headers[key] = value
SetHeader(headers, key, value) ==
    [k \in DOMAIN headers \cup {key} |-> IF k = key THEN value ELSE headers[k]]

\* headers[key], "" when the key is absent
GetHeader(headers, key) == IF key \in DOMAIN headers THEN headers[key] ELSE <<>>

NoHeaders == [k \in {} |-> <<>>]

\* a faulty variant of the header loop: the end of the input ends the header
\* block like a blank line
RECURSIVE readHeadersEofEndsBlock(_, _)
readHeadersEofEndsBlock(stream, headers) ==
    LET r == ReadString(stream)
        line == TrimRight(r.line, {"\r", "\n"})
        h == Split(line, <<":", " ">>)
    IN  IF r.err \/ line = <<>> THEN [res |-> "ok", headers |-> headers, rest |-> r.rest]
        ELSE IF Len(h) < 2 THEN [res |-> "panic", headers |-> headers, rest |-> r.rest]
        ELSE readHeadersEofEndsBlock(r.rest, SetHeader(headers, ToLower(h[1]), h[2]))

\* the header loop of handleRequest: "ok" with the map and the unread rest of
\* the stream, "error" (the read failed before the blank line), or "panic"
\* (h[1] indexes past the end of a line that strings.Split did not split)
RECURSIVE readHeaders(_, _)
readHeaders(stream, headers) ==
    LET r == ReadString(stream)
        line == TrimRight(r.line, {"\r", "\n"})
        h == Split(line, <<":", " ">>)
    IN  IF r.err THEN [res |-> "error", headers |-> headers, rest |-> r.rest]
        ELSE IF line = <<>> THEN [res |-> "ok", headers |-> headers, rest |-> r.rest]
        ELSE IF Len(h) < 2 THEN [res |-> "panic", headers |-> headers, rest |-> r.rest]
        ELSE readHeaders(r.rest, SetHeader(headers, ToLower(h[1]), h[2]))

(***************************************************************************)
(* Responses, bodies and the resources a request acquires                   *)
(***************************************************************************)
\* a response Body: kind "none" is Go's nil Body, "nop" an io.NopCloser over
\* a buffer, "file" the opened *os.File, "tmp" the gzip middleware's tempFile
NoBody == [kind |-> "none", data |-> <<>>]

\* a header map with no entry (the templates' nil map)
NoRespHeaders == [k \in {} |-> ""]

ResponseHead(status, reason, headers) ==
    [Protocol |-> "", Status |-> status, Reason |-> reason, Headers |-> headers]

okResponse == [Head |-> ResponseHead(200, "OK", NoRespHeaders), Body |-> NoBody]
createdResponse == [Head |-> ResponseHead(201, "Created", NoRespHeaders), Body |-> NoBody]
notFoundResponse == [Head |-> ResponseHead(404, "Not Found", NoRespHeaders), Body |-> NoBody]
\* a faulty variant of the 500 template: the reason is left out
errorResponseNoReason ==
    [Head |-> ResponseHead(500, "", NoRespHeaders), Body |-> NoBody]

errorResponse ==
    [Head |-> ResponseHead(500, "Internal Server Error", NoRespHeaders), Body |-> NoBody]

\* Response{}: what a handler returns beside an error
ZeroResponse == [Head |-> ResponseHead(0, "", NoRespHeaders), Body |-> NoBody]

\* a faulty variant of the header assignment: a header that is already set
\* keeps its value
SetRespHeaderKeepsOld(resp, name, value) ==
    [resp EXCEPT !.Head.Headers =
        [k \in DOMAIN resp.Head.Headers \cup {name} |->
            IF k \in DOMAIN resp.Head.Headers THEN resp.Head.Headers[k] ELSE value]]

\* response.Head.Headers[name] = value
SetRespHeader(resp, name, value) ==
    [resp EXCEPT !.Head.Headers =
        [k \in DOMAIN resp.Head.Headers \cup {name} |->
            IF k = name THEN value ELSE resp.Head.Headers[k]]]

\* What one request holds: the Body the endpoint returned (origKind) and how
\* often it was closed, the os.File the endpoint opened and whether it is
\* still open, and the temporary file of the gzip middleware.
NoResources ==
    [origKind |-> "none", origCloses |-> 0,
     tmpMade |-> FALSE, tmpCloses |-> 0, tmpRemoved |-> FALSE]

\* one step of a worker, in the order the code performs them
Event(op, what, res) == [op |-> op, what |-> what, res |-> res]

\* what a handler call returns and did: err is the returned error (TRUE: not
\* nil), resp the returned Response, ev the steps, fs the served directory
\* afterwards, rs the resources held
Result(err, resp, ev, fs, rs) ==
    [err |-> err, resp |-> resp, ev |-> ev, fs |-> fs, rs |-> rs]

\* the file is not in the served directory
Absent == <<"absent">>

\* the bytes a gzip.Writer produces for data: a header, the deflate stream
\* (here stored, not shrunk) and the trailer with checksum and length
GzipHeader == <<"gzip-header">>
GzipTrailer == <<"gzip-trailer">>
Gzip(data) == GzipHeader \o data \o GzipTrailer


(***************************************************************************)
(* ResponseHead.Bytes                                                       *)
(***************************************************************************)
\* the bytes of the string constants that occur in response heads
Text ==
    [s \in {"", "HTTP/1.1", "HTTP/1.0", "OK", "Created", "Not Found",
            "Internal Server Error", "Content-Type", "Content-Length", "Connection",
            "Content-Encoding", "text/plain", "application/octet-stream", "close", "gzip"} |->
        CASE s = "" -> <<>>
          [] s = "HTTP/1.1" -> <<"H", "T", "T", "P", "/", "1", ".", "1">>
          [] s = "HTTP/1.0" -> <<"H", "T", "T", "P", "/", "1", ".", "0">>
          [] s = "OK" -> <<"O", "K">>
          [] s = "Created" -> <<"C", "r", "e", "a", "t", "e", "d">>
          [] s = "Not Found" -> <<"N", "o", "t", " ", "F", "o", "u", "n", "d">>
          [] s = "Internal Server Error" -> <<"I", "n", "t", "e", "r", "n", "a", "l", " ", "S", "e", "r", "v", "e", "r", " ", "E", "r", "r", "o", "r">>
          [] s = "Content-Type" -> <<"C", "o", "n", "t", "e", "n", "t", "-", "T", "y", "p", "e">>
          [] s = "Content-Length" -> <<"C", "o", "n", "t", "e", "n", "t", "-", "L", "e", "n", "g", "t", "h">>
          [] s = "Connection" -> <<"C", "o", "n", "n", "e", "c", "t", "i", "o", "n">>
          [] s = "Content-Encoding" -> <<"C", "o", "n", "t", "e", "n", "t", "-", "E", "n", "c", "o", "d", "i", "n", "g">>
          [] s = "text/plain" -> <<"t", "e", "x", "t", "/", "p", "l", "a", "i", "n">>
          [] s = "application/octet-stream" -> <<"a", "p", "p", "l", "i", "c", "a", "t", "i", "o", "n", "/", "o", "c", "t", "e", "t", "-", "s", "t", "r", "e", "a", "m">>
          [] s = "close" -> <<"c", "l", "o", "s", "e">>
          [] s = "gzip" -> <<"g", "z", "i", "p">>]

DigitChars == <<"0", "1", "2", "3", "4", "5", "6", "7", "8", "9">>

\* fmt.Sprintf("%d", n) and strconv.Itoa(n)
RECURSIVE Itoa(_)
Itoa(n) ==
    IF n < 0 THEN <<"-">> \o Itoa(0 - n)
    ELSE IF n < 10 THEN <<DigitChars[n + 1]>>
    ELSE Itoa(n \div 10) \o <<DigitChars[(n % 10) + 1]>>

\* a faulty variant of the status line: an unset protocol is written as it is
StatusLineKeepsEmptyProtocol(r) ==
    Text[r.Protocol] \o <<" ">> \o Itoa(r.Status) \o <<" ">> \o Text[r.Reason] \o <<"\r", "\n">>

\* lines 30-40 of Bytes: the protocol ("HTTP/1.1" when unset), the status, a
\* space, the reason when there is one, and the line end
StatusLine(r) ==
    LET Protocol == IF r.Protocol = "" THEN "HTTP/1.1" ELSE r.Protocol
    IN  Text[Protocol] \o <<" ">> \o Itoa(r.Status) \o <<" ">>
            \o (IF r.Reason # "" THEN Text[r.Reason] ELSE <<>>) \o <<"\r", "\n">>

\* the value of a header as it is written: the Content-Length is a number
\* formatted in decimal
HeaderValueText(header, val) ==
    IF header = "Content-Length" THEN Itoa(val) ELSE Text[val]

\* the header lines in the order order of the names
RECURSIVE HeaderLinesIn(_, _)
HeaderLinesIn(headers, order) ==
    IF order = <<>> THEN <<>>
    ELSE Text[Head(order)] \o <<":", " ">> \o HeaderValueText(Head(order), headers[Head(order)])
            \o <<"\r", "\n">> \o HeaderLinesIn(headers, Tail(order))

\* the orders in which "for header, val := range r.Headers" can visit a map
RangeOrders(headers) ==
    LET n == Cardinality(DOMAIN headers) IN
    {o \in [1..n -> DOMAIN headers] : \A i, j \in 1..n : o[i] = o[j] => i = j}

\* ResponseHead.Bytes(): one byte string for each order in which the range
\* over the header map can run
Bytes(r) ==
    {StatusLine(r) \o HeaderLinesIn(r.Headers, o) \o <<"\r", "\n">> : o \in RangeOrders(r.Headers)}
(***************************************************************************)
(* The endpoints                                                            *)
(***************************************************************************)
\* a faulty variant of parsePathArg: the argument is the second element of
\* the path only
parsePathArgSecondElement(requestPath) ==
    LET path == TrimLeft(requestPath, {"/"})
        pp == Split(path, <<"/">>)
    IN  IF Len(pp) < 2
        THEN [ok |-> FALSE, arg |-> <<>>]
        ELSE [ok |-> TRUE, arg |-> pp[2]]

\* parsePathArg: [ok, arg]
parsePathArg(requestPath) ==
    LET path == TrimLeft(requestPath, {"/"})
        pp == Split(path, <<"/">>)
    IN  IF Len(pp) < 2
        THEN [ok |-> FALSE, arg |-> <<>>]
        ELSE [ok |-> TRUE, arg |-> SubSeq(path, Len(pp[1]) + 2, Len(path))]

rootEndpoint(req, fs) ==
    {Result(FALSE, okResponse, <<Event("call", "rootEndpoint", "ok")>>, fs, NoResources)}

\* the three headers and the NopCloser body of userAgentEndpoint and echoEndpoint
TextResponse(text) ==
    [Head |-> ResponseHead(200, "OK",
                [k \in {"Content-Type", "Content-Length", "Connection"} |->
                    CASE k = "Content-Type" -> "text/plain"
                      [] k = "Content-Length" -> Len(text)
                      [] k = "Connection" -> "close"]),
     Body |-> [kind |-> "nop", data |-> text]]

userAgentEndpoint(req, fs) ==
    {Result(FALSE, TextResponse(GetHeader(req.Headers, <<"u", "s", "e", "r", "-", "a", "g", "e", "n", "t">>)),
            <<Event("call", "userAgentEndpoint", "ok")>>, fs,
            [NoResources EXCEPT !.origKind = "nop"])}

echoEndpoint(req, fs) ==
    LET a == parsePathArg(req.Path) IN
    IF ~a.ok
    THEN {Result(TRUE, ZeroResponse, <<Event("call", "echoEndpoint", "error")>>, fs,
                 NoResources)}
    ELSE {Result(FALSE, TextResponse(a.arg), <<Event("call", "echoEndpoint", "ok")>>, fs,
                 [NoResources EXCEPT !.origKind = "nop"])}

\* os.File.Write at offset 0 of a file opened without O_TRUNC
Overwrite(old, data) == data \o SubSeq(old, Len(data) + 1, Len(old))

\* the directory main serves: the default of the flag -directory
Directory == <<".">>

\* the GET branch of filesEndpoint (every method but POST)
filesEndpointGet(req, fs) ==
    LET fileName == Join(Directory, parsePathArg(req.Path).arg)
        exists == fileName \in DOMAIN fs /\ fs[fileName] # Absent
        opened == [NoResources EXCEPT !.origKind = "file"]
    IN  IF ~exists
        THEN {Result(FALSE, notFoundResponse,
                     <<Event("call", "filesEndpoint", "ok"), Event("open", "file", "notexist")>>,
                     fs, NoResources)}
        ELSE { \* os.Open fails with another error
               Result(TRUE, ZeroResponse,
                     <<Event("call", "filesEndpoint", "error"), Event("open", "file", "error")>>,
                     fs, NoResources),
               \* os.Stat fails: the opened file is not closed
               Result(TRUE, ZeroResponse,
                     <<Event("call", "filesEndpoint", "error"), Event("open", "file", "ok"),
                       Event("stat", "file", "error")>>,
                     fs, opened),
               Result(FALSE,
                     [Head |-> ResponseHead(200, "OK",
                         [k \in {"Content-Type", "Content-Length", "Connection"} |->
                             CASE k = "Content-Type" -> "application/octet-stream"
                               [] k = "Content-Length" -> Len(fs[fileName])
                               [] k = "Connection" -> "close"]),
                      Body |-> [kind |-> "file", data |-> fs[fileName]]],
                     <<Event("call", "filesEndpoint", "ok"), Event("open", "file", "ok"),
                       Event("stat", "file", "ok")>>,
                     fs, opened) }

\* the POST branch of filesEndpoint
filesEndpointPost(req, fs) ==
    LET fileName == Join(Directory, parsePathArg(req.Path).arg)
        exists == fileName \in DOMAIN fs /\ fs[fileName] # Absent
        old == IF exists THEN fs[fileName] ELSE <<>>
        \* os.OpenFile(O_CREATE|O_WRONLY) creates the file when it is absent
        created == [k \in DOMAIN fs \cup {fileName} |-> IF k = fileName THEN old ELSE fs[k]]
        hasLength == <<"c", "o", "n", "t", "e", "n", "t", "-", "l", "e", "n", "g", "t", "h">> \in DOMAIN req.Headers
        length == Atoi(GetHeader(req.Headers, <<"c", "o", "n", "t", "e", "n", "t", "-", "l", "e", "n", "g", "t", "h">>))
        n == IF length.n < 0 THEN 0 ELSE length.n
        copied == SubSeq(req.Body, 1, IF n <= Len(req.Body) THEN n ELSE Len(req.Body))
        written == [created EXCEPT ![fileName] = Overwrite(old, copied)]
        call(res) == Event("call", "filesEndpoint", res)
    IN  { Result(TRUE, ZeroResponse, <<call("error"), Event("openfile", "file", "error")>>,
                 fs, NoResources) }
        \cup
        (IF ~hasLength
         THEN {Result(TRUE, ZeroResponse,
                      <<call("error"), Event("openfile", "file", "ok"),
                        Event("header", "content-length", "missing")>>, created, NoResources)}
         ELSE IF ~length.ok
         THEN {Result(TRUE, ZeroResponse,
                      <<call("error"), Event("openfile", "file", "ok"),
                        Event("header", "content-length", "invalid")>>, created, NoResources)}
         ELSE IF Len(copied) < n
         THEN \* io.CopyN: the request body ended before length bytes
              {Result(TRUE, ZeroResponse,
                      <<call("error"), Event("openfile", "file", "ok"),
                        Event("copyn", "file", "eof")>>, written, NoResources)}
         ELSE {Result(FALSE, SetRespHeader(createdResponse, "Connection", "close"),
                      <<call("ok"), Event("openfile", "file", "ok"),
                        Event("copyn", "file", "ok")>>, written, NoResources)})

filesEndpoint(req, fs) ==
    IF req.Method # <<"P", "O", "S", "T">> THEN filesEndpointGet(req, fs) ELSE filesEndpointPost(req, fs)

\* the handlers main registers, by name
HandlerNames == {"rootEndpoint", "userAgentEndpoint", "echoEndpoint", "filesEndpoint"}

callEndpoint(name, req, fs) ==
    CASE name = "rootEndpoint" -> rootEndpoint(req, fs)
      [] name = "userAgentEndpoint" -> userAgentEndpoint(req, fs)
      [] name = "echoEndpoint" -> echoEndpoint(req, fs)
      [] name = "filesEndpoint" -> filesEndpoint(req, fs)

(***************************************************************************)
(* gzipMiddleware and the middleware chain                                  *)
(***************************************************************************)
\* a faulty variant of the negotiation: "gzip" anywhere in the header value
gzipPresentContains(acceptEncoding) ==
    Index(acceptEncoding, <<"g", "z", "i", "p">>) # 0

\* whether "gzip" is one of the trimmed, comma-separated tokens
gzipPresent(acceptEncoding) ==
    LET options == Split(acceptEncoding, <<",">>) IN
    \E i \in 1..Len(options) : TrimSpace(options[i]) = <<"g", "z", "i", "p">>

\* tempFile.Close: closes the file and removes it
tempFileClose(rs) == [rs EXCEPT !.tmpCloses = @ + 1, !.tmpRemoved = TRUE]

\* a faulty variant of gzipMiddleware: the error of the handler is dropped and
\* the Response{} beside it is returned as the response
gzipMiddlewareDropsError(request, r) ==
    {Result(FALSE, r.resp, r.ev \o <<Event("middleware", "gzip", "no body")>>, r.fs, r.rs)}

\* what gzipMiddleware(handler) returns for one result r of handler(request)
gzipMiddlewareOn(request, r) ==
    LET mw(res) == Event("middleware", "gzip", res)
        withEncoding == SetRespHeader(r.resp, "Content-Encoding", "gzip")
        made == [r.rs EXCEPT !.tmpMade = TRUE]
        failed(step, rs) ==
            Result(TRUE, ZeroResponse, r.ev \o <<mw("error"), Event(step, "tmp", "error")>>,
                   r.fs, rs)
        compressed == Gzip(r.resp.Body.data)
    IN  IF r.err
        THEN {Result(TRUE, ZeroResponse, r.ev \o <<mw("handler error")>>, r.fs, r.rs)}
        ELSE IF r.resp.Body.kind = "none"
        THEN {[r EXCEPT !.ev = @ \o <<mw("no body")>>]}
        ELSE IF ~gzipPresent(GetHeader(request.Headers, <<"a", "c", "c", "e", "p", "t", "-", "e", "n", "c", "o", "d", "i", "n", "g">>))
        THEN {[r EXCEPT !.ev = @ \o <<mw("not accepted")>>]}
        ELSE { failed("createTemp", r.rs),
               failed("compress", made),
               failed("gzip close", made),
               failed("seek", made),
               failed("stat", made),
               Result(FALSE,
                      [SetRespHeader(withEncoding, "Content-Length", Len(compressed))
                          EXCEPT !.Body = [kind |-> "tmp", data |-> compressed]],
                      r.ev \o <<mw("compressed"), Event("createTemp", "tmp", "ok")>>,
                      r.fs, made) }

\* Middleware values of a caller of RegisterMiddleware other than
\* gzipMiddleware: each records a step before it calls the handler it wraps
\* and a step after that handler returned, and hands the result on untouched
TraceMiddlewares == {"traceA", "traceB"}

traceMiddlewareOn(name, request, r) ==
    {[r EXCEPT !.ev = <<Event("middleware", name, "enter")>> \o @
                        \o <<Event("middleware", name, "leave")>>]}

\* the middlewares that can be registered, by name
applyMiddleware(name, request, r) ==
    CASE name = "gzipMiddleware" -> gzipMiddlewareOn(request, r)
      [] name \in TraceMiddlewares -> traceMiddlewareOn(name, request, r)

\* a faulty variant of the wrapping loop: the middleware registered first
\* ends up outermost
RECURSIVE callWrappedFirstOutermost(_, _, _, _, _)
callWrappedFirstOutermost(mws, k, name, request, fs) ==
    IF k = 0
    THEN callEndpoint(name, request, fs)
    ELSE UNION {applyMiddleware(mws[Len(mws) - k + 1], request, r) :
                    r \in callWrappedFirstOutermost(mws, k - 1, name, request, fs)}

\* the handler that "for i := range s.middlewares { handler = s.middlewares[i](handler) }"
\* builds from the first k middlewares, called with request: middleware k is
\* the outermost
RECURSIVE callWrapped(_, _, _, _, _)
callWrapped(mws, k, name, request, fs) ==
    IF k = 0
    THEN callEndpoint(name, request, fs)
    ELSE UNION {applyMiddleware(mws[k], request, r) :
                    r \in callWrapped(mws, k - 1, name, request, fs)}

(***************************************************************************)
(* Server.handleRequest and the worker goroutine of Server.Start            *)
(***************************************************************************)
\* how an io.Copy to the connection of n bytes can end: "all" (no error), or
\* an error after "some" or "none" of the bytes
WriteOutcomes(n) ==
    {"all"} \cup (IF n >= 1 THEN {"none"} ELSE {}) \cup (IF n >= 2 THEN {"some"} ELSE {})

\* ResponseHead.Bytes() is never shorter than its status line
HeadOutcomes == {"all", "some", "none"}

\* what was handed to the connection: the head or the body of a response and
\* how much of it got through
HeadChunk(head, n) == [kind |-> "head", head |-> head, data |-> <<>>, n |-> n]
BodyChunk(data, n) == [kind |-> "body", head |-> ZeroResponse.Head, data |-> data, n |-> n]

\* response.Body.Close() for the Body the worker holds
closeBody(rs, body) ==
    IF body.kind = "tmp" THEN tempFileClose(rs)
    ELSE [rs EXCEPT !.origCloses = @ + 1]

\* A run of handleRequest or of the whole worker: the request bytes the
\* connection delivered, the parsed path, the steps in order, what went out on
\* the connection, the returned error ("nil", "error", or "panic" when the
\* goroutine panicked instead of returning), the Body handed to the
\* dispatcher, the resources and the served directory afterwards.
Run(input, path, ev, out, err, body, rs, fs) ==
    [input |-> input, path |-> path, ev |-> ev, out |-> out, err |-> err,
     body |-> body, rs |-> rs, fs |-> fs]

\* a faulty variant of the route miss: an error is returned even when the 404
\* was written
routeMissRunsReturnsError(input, path, ev, fs) ==
    {Run(input, path, ev \o <<Event("write", "404", n)>>,
         <<HeadChunk(notFoundResponse.Head, n)>>, "error", NoBody, NoResources, fs)
        : n \in HeadOutcomes}

\* lines 234-242: no handler was found
routeMissRuns(input, path, ev, fs) ==
    {Run(input, path, ev \o <<Event("write", "404", n)>>,
         <<HeadChunk(notFoundResponse.Head, n)>>,
         IF n = "all" THEN "nil" ELSE "error", NoBody, NoResources, fs)
        : n \in HeadOutcomes}

\* a faulty variant of the writing: the body is streamed before the head
writeResponseRunsBodyFirst(input, path, r) ==
    LET head == r.resp.Head
        body == r.resp.Body
    IN  IF body.kind = "none"
        THEN {Run(input, path, r.ev \o <<Event("write", "head", "all")>>,
                  <<HeadChunk(head, "all")>>, "nil", body, r.rs, r.fs)}
        ELSE {Run(input, path,
                  r.ev \o <<Event("write", "body", "all"), Event("write", "head", "all"),
                            Event("close", "body", body.kind)>>,
                  <<BodyChunk(body.data, "all"), HeadChunk(head, "all")>>,
                  "nil", body, closeBody(r.rs, body), r.fs)}

\* lines 251-262: the response is written
writeResponseRuns(input, path, r) ==
    LET head == r.resp.Head
        body == r.resp.Body
        headFailed ==
            {Run(input, path, r.ev \o <<Event("write", "head", n)>>,
                 <<HeadChunk(head, n)>>, "error", body, r.rs, r.fs)
                : n \in HeadOutcomes \ {"all"}}
        evHead == r.ev \o <<Event("write", "head", "all")>>
    IN  headFailed \cup
        (IF body.kind = "none"
         THEN {Run(input, path, evHead, <<HeadChunk(head, "all")>>, "nil", body, r.rs, r.fs)}
         ELSE {Run(input, path,
                   evHead \o <<Event("write", "body", n), Event("close", "body", body.kind)>>,
                   <<HeadChunk(head, "all"), BodyChunk(body.data, n)>>,
                   IF n = "all" THEN "nil" ELSE "error",
                   body, closeBody(r.rs, body), r.fs)
                : n \in WriteOutcomes(Len(body.data))})

\* the Request handleRequest hands to the handler (line 247) when the
\* connection delivers the bytes of input
RequestOf(input) ==
    LET first == ReadString(input)
        requestLine == parseRequestLine(first.line)
        hdr == readHeaders(first.rest, NoHeaders)
    IN  [Method |-> requestLine.Method, Path |-> requestLine.Path,
         Headers |-> hdr.headers, Body |-> hdr.rest]

\* lines 248-262: what handleRequest does with the result r of the wrapped
\* handler, ev being the steps before the call
afterHandler(input, path, ev, r) ==
    IF r.err
    THEN {Run(input, path, ev \o r.ev, <<>>, "error", NoBody, r.rs, r.fs)}
    ELSE writeResponseRuns(input, path, [r EXCEPT !.ev = ev \o @])

\* handleRequest(conn) for a connection that delivers the bytes of input
handleRequest(input, ep, mws, fs) ==
    LET first == ReadString(input)
        requestLine == parseRequestLine(first.line)
        hdr == readHeaders(first.rest, NoHeaders)
        path == requestLine.Path
        ev0 == <<Event("read", "request line", "ok")>>
        ev1 == ev0 \o <<Event("read", "headers", "ok")>>
        handler == getHandler(ep, path)
        request == [Method |-> requestLine.Method, Path |-> path,
                    Headers |-> hdr.headers, Body |-> hdr.rest]
        stop(ev, p, err) == {Run(input, p, ev, <<>>, err, NoBody, NoResources, fs)}
    IN  IF first.err
        THEN stop(<<Event("read", "request line", "error")>>, <<>>, "error")
        ELSE IF ~requestLine.ok
        THEN stop(<<Event("read", "request line", "invalid")>>, <<>>, "error")
        ELSE IF hdr.res = "error"
        THEN stop(ev0 \o <<Event("read", "headers", "error")>>, path, "error")
        ELSE IF hdr.res = "panic"
        THEN stop(ev0 \o <<Event("read", "headers", "panic")>>, path, "panic")
        ELSE IF handler = Nil
        THEN routeMissRuns(input, path, ev1 \o <<Event("getHandler", "nil", "ok")>>, fs)
        ELSE UNION {
               afterHandler(input, path, ev1 \o <<Event("getHandler", handler, "ok")>>, r)
               : r \in callWrapped(mws, Len(mws), handler, request, fs)}

\* a faulty variant of the worker: after a request that succeeded it handles
\* what the connection delivers next, as a keep-alive loop would
workerRunsKeepAlive(input, ep, mws, fs) ==
    LET rest == readHeaders(ReadString(input).rest, NoHeaders).rest
        close == <<Event("close", "conn", "ok")>>
    IN  UNION {
            IF r.err = "nil"
            THEN {[r2 EXCEPT !.input = input, !.path = r.path,
                             !.ev = r.ev \o @ \o close, !.out = r.out \o @]
                    : r2 \in handleRequest(rest, ep, mws, r.fs)}
            ELSE {[r EXCEPT !.ev = @ \o close]}
            : r \in handleRequest(input, ep, mws, fs)}

\* lines 175-182 and the deferred conn.Close(): what the goroutine does after
\* handleRequest returned, for each run of runs
workerEnds(runs) ==
    UNION {
        IF r.err = "error"
        THEN {[r EXCEPT !.ev = @ \o <<Event("write", "500", n), Event("close", "conn", "ok")>>,
                        !.out = @ \o <<HeadChunk(errorResponse.Head, n)>>]
                : n \in HeadOutcomes}
        ELSE {[r EXCEPT !.ev = @ \o <<Event("close", "conn", "ok")>>]}
        : r \in runs}

\* the goroutine of Start (lines 172-183): handleRequest, the 500 response
\* when it returned an error, and the deferred conn.Close()
workerRuns(input, ep, mws, fs) == workerEnds(handleRequest(input, ep, mws, fs))

(***************************************************************************)
(* The server: main, Server.Start and one worker per accepted connection    *)
(***************************************************************************)
\* the RegisterHandler calls of main, in order
MainRegistrations ==
    << [prefix |-> <<"/">>, handler |-> "rootEndpoint"],
       [prefix |-> <<"/", "u", "s", "e", "r", "-", "a", "g", "e", "n", "t">>, handler |-> "userAgentEndpoint"],
       [prefix |-> <<"/", "e", "c", "h", "o", "/">>, handler |-> "echoEndpoint"],
       [prefix |-> <<"/", "f", "i", "l", "e", "s", "/">>, handler |-> "filesEndpoint"] >>

\* the registries a sequence of RegisterHandler calls can leave, starting
\* from any registry of eps
RECURSIVE RegisterAllResults(_, _)
RegisterAllResults(eps, regs) ==
    IF regs = <<>>
    THEN eps
    ELSE RegisterAllResults(
            UNION {RegisterHandlerResults(ep, Head(regs).prefix, Head(regs).handler)
                      : ep \in eps},
            Tail(regs))

\* the files of the served directory the requests of the model name
FileNames == {<<"f">>}

\* a file next to the served directory, by its path from the working
\* directory, and what it holds
OutsideFiles == {<<".", ".", "/", "s">>}
OutsideContent == <<"k", "e", "y">>

\* what the file system holds when the server starts: the file of the served
\* directory is there or not
InitialFiles ==
    {[p \in FileNames \cup OutsideFiles |-> IF p \in OutsideFiles THEN OutsideContent ELSE c]
        : c \in {Absent, <<"x", "y">>}}

\* what a client sends before it closes its side: a request line followed by
\* a header block; the block with Content-Length also carries a body
RequestLines ==
    { <<"G", "E", "T", " ", "/", " ", "H", "T", "T", "P", "/", "1", ".", "1", "\r", "\n">>,
      <<"G", "E", "T", " ", "/", "u", "s", "e", "r", "-", "a", "g", "e", "n", "t", " ", "H", "T", "T", "P", "/", "1", ".", "1", "\r", "\n">>,
      <<"G", "E", "T", " ", "/", "e", "c", "h", "o", "/", "a", " ", "H", "T", "T", "P", "/", "1", ".", "1", "\r", "\n">>,
      <<"G", "E", "T", " ", "/", "f", "i", "l", "e", "s", "/", "f", " ", "H", "T", "T", "P", "/", "1", ".", "1", "\r", "\n">>,
      <<"P", "O", "S", "T", " ", "/", "f", "i", "l", "e", "s", "/", "f", " ", "H", "T", "T", "P", "/", "1", ".", "1", "\r", "\n">>,
      <<"G", "E", "T", " ", "/", "x", " ", "H", "T", "T", "P", "/", "1", ".", "1", "\r", "\n">>,
      <<"G", "E", "T", " ", "/", "\r", "\n">>,
      <<"G", "E", "T", " ", "/", " ", "H", "T", "T", "P", "/", "1", ".", "1">> }

HeaderBlocks ==
    { <<"\r", "\n">>,
      <<"A", "c", "c", "e", "p", "t", "-", "E", "n", "c", "o", "d", "i", "n", "g", ":", " ", "g", "z", "i", "p", "\r", "\n", "\r", "\n">>,
      <<"C", "o", "n", "t", "e", "n", "t", "-", "L", "e", "n", "g", "t", "h", ":", " ", "1", "\r", "\n", "\r", "\n", "z">>,
      <<"H", "o", "s", "t", "\r", "\n", "\r", "\n">>,
      <<"U", "s", "e", "r", "-", "A", "g", "e", "n", "t", ":", " ", "c", "\r", "\n", "\r", "\n">>,
      <<"U", "s", "e", "r", "-", "A", "g", "e", "n", "t", ":", " ", "c", "\r", "\n">> }

Requests == {l \o h : l \in RequestLines, h \in HeaderBlocks}

NoRun ==
    [conn |-> 0,
     run |-> Run(<<>>, <<>>, <<>>, <<>>, "none", NoBody, NoResources,
                 [f \in FileNames |-> Absent])]

\* the Server value main constructs
Init ==
    /\ endPointHandlers = <<>>
    /\ middlewares = <<>>
    /\ lastCall = NoCall
    /\ listener = "none"
    /\ acceptErr = "nil"
    /\ crashed = FALSE
    /\ pc = [c \in Conns |-> "idle"]
    /\ files \in InitialFiles
    /\ lastRun = NoRun

\* main: the four RegisterHandler calls and RegisterMiddleware(gzipMiddleware)
MainRegister ==
    /\ listener = "none"
    /\ endPointHandlers = <<>>
    /\ endPointHandlers' \in RegisterAllResults({endPointHandlers}, MainRegistrations)
    /\ middlewares' = Append(middlewares, "gzipMiddleware")
    /\ UNCHANGED <<lastCall, listener, acceptErr, crashed, pc, files, lastRun>>

\* Start: net.Listen succeeds, or fails and Start returns the error
StartListen ==
    /\ listener = "none"
    /\ endPointHandlers # <<>>
    /\ listener' \in {"listening", "failed"}
    /\ UNCHANGED <<endPointHandlers, middlewares, lastCall, acceptErr, crashed, pc, files,
                   lastRun>>

\* a faulty variant of the accept loop: the connection is handled in the
\* loop itself, so the next Accept waits for the worker before it
AcceptAfterWorker(c) ==
    /\ listener = "listening"
    /\ ~crashed
    /\ pc[c] = "idle"
    /\ \A d \in Conns : pc[d] # "handling"
    /\ pc' = [pc EXCEPT ![c] = "handling"]
    /\ acceptErr' = "nil"
    /\ UNCHANGED <<endPointHandlers, middlewares, lastCall, listener, crashed, files,
                   lastRun>>

\* the accept loop: Accept returns connection c and its goroutine is spawned
Accept(c) ==
    /\ listener = "listening"
    /\ ~crashed
    /\ pc[c] = "idle"
    /\ pc' = [pc EXCEPT ![c] = "handling"]
    /\ acceptErr' = "nil"
    /\ UNCHANGED <<endPointHandlers, middlewares, lastCall, listener, crashed, files,
                   lastRun>>

\* the goroutine of connection c runs to its end on what its client sends, one
\* of requests; a panic that nothing recovers ends the process, after the
\* deferred conn.Close()
WorkerOn(c, requests) ==
    /\ ~crashed
    /\ pc[c] = "handling"
    /\ \E input \in requests :
         \E r \in workerRuns(input, endPointHandlers, middlewares, files) :
            /\ lastRun' = [conn |-> c, run |-> r]
            /\ files' = r.fs
            /\ crashed' = (r.err = "panic")
    /\ pc' = [pc EXCEPT ![c] = "closed"]
    /\ UNCHANGED <<endPointHandlers, middlewares, lastCall, listener, acceptErr>>

Worker(c) == WorkerOn(c, Requests)

Next ==
    \/ MainRegister
    \/ StartListen
    \/ \E c \in Conns : Accept(c)
    \/ \E c \in Conns : Worker(c)

Spec == Init /\ [][Next]_vars

(***************************************************************************)
(* Registry specification: any sequence of RegisterHandler calls on a new   *)
(* Server, with getHandler called in between.                               *)
(***************************************************************************)
InitRegistry ==
    /\ endPointHandlers = <<>>
    /\ lastCall = NoCall
    /\ middlewares = <<>>
    /\ listener = "none"
    /\ acceptErr = "nil"
    /\ crashed = FALSE
    /\ pc = [c \in Conns |-> "idle"]
    /\ files = [f \in FileNames |-> Absent]
    /\ lastRun = NoRun

RegisterHandler(endpointPrefix, handler) ==
    /\ \/ Len(endPointHandlers) < MaxHandlers
       \/ IndexOfPrefix(endPointHandlers, endpointPrefix) # 0
    /\ endPointHandlers' \in
          RegisterHandlerResults(endPointHandlers, endpointPrefix, handler)
    /\ lastCall' = [op |-> "RegisterHandler",
                    prefix |-> endpointPrefix,
                    handler |-> handler,
                    present |-> IndexOfPrefix(endPointHandlers, endpointPrefix) # 0,
                    lenBefore |-> Len(endPointHandlers)]
    /\ UNCHANGED serverVars

Resolve(path) ==
    /\ lastCall' = [op |-> "getHandler",
                    path |-> path,
                    index |-> getHandlerIndex(endPointHandlers, path),
                    handler |-> getHandler(endPointHandlers, path)]
    /\ UNCHANGED <<endPointHandlers, serverVars>>

NextRegistry ==
    \/ \E p \in Prefixes, h \in HandlerIds : RegisterHandler(p, h)
    \/ \E path \in Paths : Resolve(path)

SpecRegistry == InitRegistry /\ [][NextRegistry]_vars


(***************************************************************************)
(* Serving specification: the server of main with its clients arriving one  *)
(* at a time, each sending one of a wider set of requests.                  *)
(***************************************************************************)
\* two requests sent back to back on one connection
PipelinedRequests ==
    { <<"G", "E", "T", " ", "/", " ", "H", "T", "T", "P", "/", "1", ".", "1", "\r", "\n", "\r", "\n", "G", "E", "T", " ", "/", "x", " ", "H", "T", "T", "P", "/", "1", ".", "1", "\r", "\n", "\r", "\n">> }

\* a header line without ": " and then the end of the input
CutRequests ==
    { <<"G", "E", "T", " ", "/", " ", "H", "T", "T", "P", "/", "1", ".", "1", "\r", "\n", "H", "o", "s", "t", "\r", "\n">> }

\* values of the Accept-Encoding header
AcceptEncodings ==
    { <<"g", "z", "i", "p", "x">>, <<"d", "e", "f", "l", "a", "t", "e">>, <<"d", "e", "f", "l", "a", "t", "e", ",", " ", "g", "z", "i", "p">>, <<" ", "g", "z", "i", "p", " ">>, <<"g", "z", "i", "p", " ", ",", "b", "r">>, <<"G", "Z", "I", "P">>,
      <<"g", "z", "i", "p", ";", "q", "=", "1">>, <<"g", ",", "z", "i", "p">>, <<>> }

EncodingRequests ==
    { <<"G", "E", "T", " ", "/", "e", "c", "h", "o", "/", "a", " ", "H", "T", "T", "P", "/", "1", ".", "1", "\r", "\n", "A", "c", "c", "e", "p", "t", "-", "E", "n", "c", "o", "d", "i", "n", "g", ":", " ">> \o v \o <<"\r", "\n", "\r", "\n">>
        : v \in AcceptEncodings }
    \cup { <<"G", "E", "T", " ", "/", "f", "i", "l", "e", "s", "/", "f", " ", "H", "T", "T", "P", "/", "1", ".", "1", "\r", "\n", "a", "c", "c", "e", "p", "t", "-", "e", "n", "c", "o", "d", "i", "n", "g", ":", " ">> \o v \o <<"\r", "\n", "\r", "\n">>
        : v \in AcceptEncodings }

\* uploads: the content-length header and the body that follows the headers
PostRequests ==
    { <<"P", "O", "S", "T", " ", "/", "f", "i", "l", "e", "s", "/", "f", " ", "H", "T", "T", "P", "/", "1", ".", "1", "\r", "\n">> \o h
        : h \in { <<"C", "o", "n", "t", "e", "n", "t", "-", "L", "e", "n", "g", "t", "h", ":", " ", "x", "\r", "\n", "\r", "\n", "z">>,
                  <<"C", "o", "n", "t", "e", "n", "t", "-", "L", "e", "n", "g", "t", "h", ":", " ", "1", "z", "\r", "\n", "\r", "\n", "z">>,
                  <<"C", "o", "n", "t", "e", "n", "t", "-", "L", "e", "n", "g", "t", "h", ":", " ", "\r", "\n", "\r", "\n", "z">>,
                  <<"C", "o", "n", "t", "e", "n", "t", "-", "L", "e", "n", "g", "t", "h", ":", " ", "2", "\r", "\n", "\r", "\n", "z">>,
                  <<"C", "o", "n", "t", "e", "n", "t", "-", "L", "e", "n", "g", "t", "h", ":", " ", "1", "\r", "\n", "\r", "\n", "z", "w">>,
                  <<"C", "o", "n", "t", "e", "n", "t", "-", "L", "e", "n", "g", "t", "h", ":", " ", "0", "\r", "\n", "\r", "\n", "z">>,
                  <<"C", "o", "n", "t", "e", "n", "t", "-", "L", "e", "n", "g", "t", "h", ":", " ", "-", "1", "\r", "\n", "\r", "\n", "z">>,
                  <<"A", "c", "c", "e", "p", "t", "-", "E", "n", "c", "o", "d", "i", "n", "g", ":", " ", "g", "z", "i", "p", "\r", "\n", "\r", "\n", "z">> } }

\* downloads by other names than /files/f
DownloadRequests ==
    { <<"G", "E", "T", " ", "/", "f", "i", "l", "e", "s", "/", ".", ".", "/", "s", " ", "H", "T", "T", "P", "/", "1", ".", "1", "\r", "\n", "\r", "\n">>,
      <<"G", "E", "T", " ", "/", "f", "i", "l", "e", "s", "/", ".", "/", "f", " ", "H", "T", "T", "P", "/", "1", ".", "1", "\r", "\n", "\r", "\n">>,
      <<"G", "E", "T", " ", "/", "f", "i", "l", "e", "s", "/", "a", "/", ".", ".", "/", "f", " ", "H", "T", "T", "P", "/", "1", ".", "1", "\r", "\n", "\r", "\n">>,
      <<"G", "E", "T", " ", "/", "f", "i", "l", "e", "s", "/", "g", " ", "H", "T", "T", "P", "/", "1", ".", "1", "\r", "\n", "\r", "\n">> }

\* requests for paths under /echo/: no argument, an argument with further
\* slashes, another method
EchoRequests ==
    { <<"G", "E", "T", " ", "/", "e", "c", "h", "o", "/", " ", "H", "T", "T", "P", "/", "1", ".", "1", "\r", "\n", "\r", "\n">>,
      <<"G", "E", "T", " ", "/", "e", "c", "h", "o", " ", "H", "T", "T", "P", "/", "1", ".", "1", "\r", "\n", "\r", "\n">>,
      <<"G", "E", "T", " ", "/", "e", "c", "h", "o", "/", "a", "/", "b", " ", "H", "T", "T", "P", "/", "1", ".", "1", "\r", "\n", "\r", "\n">>,
      <<"G", "E", "T", " ", "/", "e", "c", "h", "o", "/", "/", "a", " ", "H", "T", "T", "P", "/", "1", ".", "1", "\r", "\n", "\r", "\n">>,
      <<"P", "O", "S", "T", " ", "/", "e", "c", "h", "o", "/", "a", "/", " ", "H", "T", "T", "P", "/", "1", ".", "1", "\r", "\n", "\r", "\n">>,
      <<"G", "E", "T", " ", "/", "e", "c", "h", "o", "/", "a", "/", "b", " ", "H", "T", "T", "P", "/", "1", ".", "1", "\r", "\n", "a", "c", "c", "e", "p", "t", "-", "e", "n", "c", "o", "d", "i", "n", "g", ":", " ", "g", "z", "i", "p", "\r", "\n", "\r", "\n">>,
      <<"G", "E", "T", " ", "/", "e", "c", "h", "o", "/", " ", "H", "T", "T", "P", "/", "1", ".", "1", "\r", "\n", "a", "c", "c", "e", "p", "t", "-", "e", "n", "c", "o", "d", "i", "n", "g", ":", " ", "g", "z", "i", "p", "\r", "\n", "\r", "\n">> }

\* requests for /user-agent: the header in several letter cases, with a value
\* that holds ": ", without a value, twice, and with gzip accepted
UserAgentRequests ==
    { <<"G", "E", "T", " ", "/", "u", "s", "e", "r", "-", "a", "g", "e", "n", "t", " ", "H", "T", "T", "P", "/", "1", ".", "1", "\r", "\n">> \o h
        : h \in { <<"u", "s", "e", "r", "-", "a", "g", "e", "n", "t", ":", " ", "c", "\r", "\n", "\r", "\n">>,
                  <<"U", "S", "E", "R", "-", "A", "G", "E", "N", "T", ":", " ", "c", "d", "\r", "\n", "\r", "\n">>,
                  <<"U", "s", "e", "r", "-", "A", "g", "e", "n", "t", ":", " ", "a", ":", " ", "b", "\r", "\n", "\r", "\n">>,
                  <<"U", "s", "e", "r", "-", "A", "g", "e", "n", "t", ":", " ", "\r", "\n", "\r", "\n">>,
                  <<"U", "s", "e", "r", "-", "A", "g", "e", "n", "t", ":", " ", "c", "\r", "\n", "u", "s", "e", "r", "-", "a", "g", "e", "n", "t", ":", " ", "d", "\r", "\n", "\r", "\n">>,
                  <<"u", "s", "e", "r", "-", "a", "g", "e", "n", "t", ":", " ", "d", "\r", "\n", "H", "o", "s", "t", ":", " ", "h", "\r", "\n", "U", "S", "E", "R", "-", "A", "G", "E", "N", "T", ":", " ", "c", "\r", "\n", "\r", "\n">>,
                  <<"H", "o", "s", "t", ":", " ", "h", "\r", "\n", "\r", "\n">>,
                  <<"U", "s", "e", "r", "-", "A", "g", "e", "n", "t", ":", " ", "c", "\r", "\n", "A", "c", "c", "e", "p", "t", "-", "E", "n", "c", "o", "d", "i", "n", "g", ":", " ", "g", "z", "i", "p", "\r", "\n", "\r", "\n">> } }

ServeRequests ==
    Requests \cup PipelinedRequests \cup CutRequests \cup EncodingRequests \cup PostRequests
        \cup DownloadRequests \cup EchoRequests \cup UserAgentRequests

\* the accept loop accepts the next connection after the last one was closed
AcceptNext ==
    /\ listener = "listening"
    /\ ~crashed
    /\ pc[1] \in {"idle", "closed"}
    /\ pc' = [pc EXCEPT ![1] = "handling"]
    /\ lastRun' = NoRun
    /\ acceptErr' = "nil"
    /\ UNCHANGED <<endPointHandlers, middlewares, lastCall, listener, crashed, files>>

\* the goroutine of that connection
Serve == WorkerOn(1, ServeRequests)

NextServe ==
    \/ MainRegister
    \/ StartListen
    \/ AcceptNext
    \/ Serve

SpecServe == Init /\ [][NextServe]_vars

(***************************************************************************)
(* Accept-loop specification: Server.Start with Accept calls that fail and  *)
(* with Server.Close.                                                       *)
(***************************************************************************)
\* Start has returned: its one return is the failed net.Listen
StartReturned == listener = "failed"

\* s.listener.Accept() returns an error: it is logged and the loop goes on
\* ("continue"); on a closed listener every Accept returns an error
AcceptFails ==
    /\ listener \in {"listening", "closed"}
    /\ ~crashed
    /\ acceptErr' = IF listener = "closed" THEN "closed" ELSE "transient"
    /\ UNCHANGED <<endPointHandlers, middlewares, lastCall, listener, crashed, pc, files,
                   lastRun>>

\* fmt.Errorf with the verb %w: the error returned wraps err and is an error
\* value of its own, whether or not err is nil
Errorf(err) == "error"

\* Server.Close: s.listener.Close() closes a listener that is open and
\* reports an error on one that is closed already; what it returns goes
\* through fmt.Errorf("close server: %w", ...)
Close ==
    /\ listener \in {"listening", "closed"}
    /\ listener' = "closed"
    /\ LET err == IF listener = "listening" THEN "nil" ELSE "error" IN
       lastCall' = [op |-> "Close", closeErr |-> err, result |-> Errorf(err)]
    /\ UNCHANGED <<endPointHandlers, middlewares, acceptErr, crashed, pc, files,
                   lastRun>>

\* what the clients of this specification send
AcceptRequests ==
    { <<"G", "E", "T", " ", "/", " ", "H", "T", "T", "P", "/", "1", ".", "1", "\r", "\n", "\r", "\n">>, <<"G", "E", "T", " ", "/", "x", " ", "H", "T", "T", "P", "/", "1", ".", "1", "\r", "\n", "\r", "\n">> }

NextAccept ==
    \/ MainRegister
    \/ StartListen
    \/ \E c \in Conns : Accept(c)
    \/ AcceptFails
    \/ Close
    \/ \E c \in Conns : WorkerOn(c, AcceptRequests)

SpecAccept == Init /\ [][NextAccept]_vars

(***************************************************************************)
(* Middleware-chain specification: a server set up with main's handlers     *)
(* and with further RegisterMiddleware calls, before and after main's own.  *)
(***************************************************************************)
\* Server.RegisterMiddleware(m)
RegisterMiddleware(m) ==
    /\ listener = "none"
    /\ Cardinality({i \in 1..Len(middlewares) : middlewares[i] \in TraceMiddlewares})
           < MaxMiddlewares
    /\ middlewares' = Append(middlewares, m)
    /\ UNCHANGED <<endPointHandlers, lastCall, listener, acceptErr, crashed, pc, files,
                   lastRun>>

\* what the clients of this specification send
ChainRequests ==
    { <<"G", "E", "T", " ", "/", "e", "c", "h", "o", "/", "a", " ", "H", "T", "T", "P", "/", "1", ".", "1", "\r", "\n", "\r", "\n">>,
      <<"G", "E", "T", " ", "/", "e", "c", "h", "o", "/", "a", " ", "H", "T", "T", "P", "/", "1", ".", "1", "\r", "\n", "A", "c", "c", "e", "p", "t", "-", "E", "n", "c", "o", "d", "i", "n", "g", ":", " ", "g", "z", "i", "p", "\r", "\n", "\r", "\n">>,
      <<"G", "E", "T", " ", "/", "e", "c", "h", "o", " ", "H", "T", "T", "P", "/", "1", ".", "1", "\r", "\n", "\r", "\n">>,
      <<"G", "E", "T", " ", "/", "x", " ", "H", "T", "T", "P", "/", "1", ".", "1", "\r", "\n", "\r", "\n">> }

NextChain ==
    \/ MainRegister
    \/ \E m \in TraceMiddlewares : RegisterMiddleware(m)
    \/ StartListen
    \/ AcceptNext
    \/ WorkerOn(1, ChainRequests)

SpecChain == Init /\ [][NextChain]_vars

(***************************************************************************)
(* Header-map specification: the header maps of the responses as objects    *)
(* with an address. A Response is a struct value, copied on assignment and  *)
(* on return; its Head.Headers is a reference to a map (0: nil). The worker *)
(* of a connection runs in three steps, the call of the endpoint, the rest  *)
(* of gzipMiddleware and the writing of the head, and the steps of two      *)
(* workers interleave.                                                      *)
(***************************************************************************)
\* a faulty variant of make: the map made last is handed out again
makeReturnsLastMap(heap) == IF heap = <<>> THEN 1 ELSE Len(heap)

\* make(map[string]string, n): the address of a map no one has yet
make(heap) == Len(heap) + 1

\* headers := make(...) and the assignments that fill it with m: the maps
\* afterwards and the address of headers
Alloc(heap, m) ==
    LET a == make(heap)
        n == IF a > Len(heap) THEN a ELSE Len(heap)
    IN  [heap |-> [i \in 1..n |-> IF i = a THEN m ELSE heap[i]], ref |-> a]

\* m[name] = value on the map at address ref
MapAssign(heap, ref, name, value) ==
    [heap EXCEPT ![ref] =
        [k \in DOMAIN heap[ref] \cup {name} |-> IF k = name THEN value ELSE heap[ref][k]]]

\* the package-level response templates: none names Headers, so the Headers
\* of each is the nil map
TemplateNames == {"okResponse", "createdResponse", "notFoundResponse", "errorResponse"}

Template(name) ==
    CASE name = "okResponse" -> okResponse
      [] name = "createdResponse" -> createdResponse
      [] name = "notFoundResponse" -> notFoundResponse
      [] name = "errorResponse" -> errorResponse

InitialTemplates == [t \in TemplateNames |-> [resp |-> Template(t), ref |-> 0]]

\* the Headers reference of a Response returned without a map of its own: the
\* one copied from the template it is a copy of, or the nil of Response{}
CopiedRef(templates, resp) ==
    IF \E t \in TemplateNames : templates[t].resp = resp
    THEN templates[CHOOSE t \in TemplateNames : templates[t].resp = resp].ref
    ELSE 0

\* what a worker holds before its endpoint returned
NoResponse ==
    [input |-> <<>>, err |-> FALSE, resp |-> ZeroResponse, ref |-> 0,
     sent |-> NoRespHeaders]

\* what the clients of this specification send
HeapRequests ==
    { <<"G", "E", "T", " ", "/", " ", "H", "T", "T", "P", "/", "1", ".", "1", "\r", "\n", "\r", "\n">>,
      <<"G", "E", "T", " ", "/", " ", "H", "T", "T", "P", "/", "1", ".", "1", "\r", "\n", "A", "c", "c", "e", "p", "t", "-", "E", "n", "c", "o", "d", "i", "n", "g", ":", " ", "g", "z", "i", "p", "\r", "\n", "\r", "\n">>,
      <<"G", "E", "T", " ", "/", "x", " ", "H", "T", "T", "P", "/", "1", ".", "1", "\r", "\n", "\r", "\n">>,
      <<"G", "E", "T", " ", "/", "u", "s", "e", "r", "-", "a", "g", "e", "n", "t", " ", "H", "T", "T", "P", "/", "1", ".", "1", "\r", "\n", "U", "s", "e", "r", "-", "A", "g", "e", "n", "t", ":", " ", "c", "\r", "\n", "\r", "\n">>,
      <<"G", "E", "T", " ", "/", "u", "s", "e", "r", "-", "a", "g", "e", "n", "t", " ", "H", "T", "T", "P", "/", "1", ".", "1", "\r", "\n", "A", "c", "c", "e", "p", "t", "-", "E", "n", "c", "o", "d", "i", "n", "g", ":", " ", "g", "z", "i", "p", "\r", "\n", "\r", "\n">>,
      <<"G", "E", "T", " ", "/", "e", "c", "h", "o", "/", "a", " ", "H", "T", "T", "P", "/", "1", ".", "1", "\r", "\n", "A", "c", "c", "e", "p", "t", "-", "E", "n", "c", "o", "d", "i", "n", "g", ":", " ", "g", "z", "i", "p", "\r", "\n", "\r", "\n">>,
      <<"G", "E", "T", " ", "/", "e", "c", "h", "o", "/", " ", "H", "T", "T", "P", "/", "1", ".", "1", "\r", "\n", "\r", "\n">>,
      <<"G", "E", "T", " ", "/", "f", "i", "l", "e", "s", "/", "f", " ", "H", "T", "T", "P", "/", "1", ".", "1", "\r", "\n", "A", "c", "c", "e", "p", "t", "-", "E", "n", "c", "o", "d", "i", "n", "g", ":", " ", "g", "z", "i", "p", "\r", "\n", "\r", "\n">>,
      <<"P", "O", "S", "T", " ", "/", "f", "i", "l", "e", "s", "/", "f", " ", "H", "T", "T", "P", "/", "1", ".", "1", "\r", "\n", "C", "o", "n", "t", "e", "n", "t", "-", "L", "e", "n", "g", "t", "h", ":", " ", "1", "\r", "\n", "\r", "\n", "z">> }

InitHeap ==
    /\ endPointHandlers = <<>>
    /\ middlewares = <<>>
    /\ lastCall = [op |-> "heap", heap |-> <<>>, templates |-> InitialTemplates,
                   held |-> [c \in Conns |-> NoResponse]]
    /\ listener = "none"
    /\ acceptErr = "nil"
    /\ crashed = FALSE
    /\ pc = [c \in Conns |-> "idle"]
    /\ files \in InitialFiles
    /\ lastRun = NoRun

\* lines 205-247 up to the return of the endpoint: the request is read and
\* routed; a route miss goes on to write notFoundResponse; else the endpoint
\* runs, and a map it made for its headers is a new object
EndpointReturns(c) ==
    /\ ~crashed
    /\ pc[c] = "handling"
    /\ \E input \in HeapRequests :
         LET request == RequestOf(input)
             handler == getHandler(endPointHandlers, request.Path)
             held(err, resp, ref) ==
                [lastCall.held EXCEPT ![c] = [input |-> input, err |-> err, resp |-> resp,
                                              ref |-> ref, sent |-> NoRespHeaders]]
         IN  IF handler = Nil
             THEN /\ lastCall' = [lastCall EXCEPT !.held =
                                     held(FALSE, lastCall.templates["notFoundResponse"].resp,
                                          lastCall.templates["notFoundResponse"].ref)]
                  /\ pc' = [pc EXCEPT ![c] = "writing"]
                  /\ files' = files
             ELSE \E r \in callEndpoint(handler, request, files) :
                    LET a == Alloc(lastCall.heap, r.resp.Head.Headers) IN
                    /\ lastCall' =
                          IF r.resp.Head.Headers # NoRespHeaders
                          THEN [lastCall EXCEPT !.heap = a.heap,
                                                !.held = held(r.err, r.resp, a.ref)]
                          ELSE [lastCall EXCEPT !.held =
                                   held(r.err, r.resp, CopiedRef(lastCall.templates, r.resp))]
                    /\ pc' = [pc EXCEPT ![c] = "middleware"]
                    /\ files' = r.fs
    /\ UNCHANGED <<endPointHandlers, middlewares, listener, acceptErr, crashed, lastRun>>

\* gzipMiddleware after handler(request) returned (lines 404-458): nothing
\* for an error, a nil Body or a client that does not accept gzip; else a map
\* is made if Headers is nil, Content-Encoding is assigned through the
\* reference, and either a later step fails and Response{} is returned or
\* Content-Length is assigned as well
MiddlewareReturns(c) ==
    /\ ~crashed
    /\ pc[c] = "middleware"
    /\ LET h == lastCall.held[c]
           request == RequestOf(h.input)
           a == IF h.ref = 0 THEN Alloc(lastCall.heap, NoRespHeaders)
                ELSE [heap |-> lastCall.heap, ref |-> h.ref]
           encoded == MapAssign(a.heap, a.ref, "Content-Encoding", "gzip")
           compressed == Gzip(h.resp.Body.data)
       IN  IF \/ middlewares = <<>>
              \/ h.err
              \/ h.resp.Body.kind = "none"
              \/ ~gzipPresent(GetHeader(request.Headers, <<"a", "c", "c", "e", "p", "t", "-", "e", "n", "c", "o", "d", "i", "n", "g">>))
           THEN lastCall' = [lastCall EXCEPT !.held[c].resp =
                                IF h.err THEN ZeroResponse ELSE @]
           ELSE \/ lastCall' = [lastCall EXCEPT !.heap = encoded,
                                                !.held[c].err = TRUE,
                                                !.held[c].resp = ZeroResponse,
                                                !.held[c].ref = 0]
                \/ lastCall' = [lastCall EXCEPT
                                   !.heap = MapAssign(encoded, a.ref, "Content-Length",
                                                      Len(compressed)),
                                   !.held[c].resp.Body = [kind |-> "tmp", data |-> compressed],
                                   !.held[c].ref = a.ref]
    /\ pc' = [pc EXCEPT ![c] = "writing"]
    /\ UNCHANGED <<endPointHandlers, middlewares, listener, acceptErr, crashed, files,
                   lastRun>>

\* lines 248-251 and 175-178: the head of the response, or of errorResponse
\* after an error, is written with what its Headers map holds by then
HeadWritten(c) ==
    /\ ~crashed
    /\ pc[c] = "writing"
    /\ LET h == lastCall.held[c]
           ref == IF h.err THEN lastCall.templates["errorResponse"].ref ELSE h.ref
       IN  lastCall' = [lastCall EXCEPT !.held[c].sent =
                           IF ref = 0 THEN NoRespHeaders ELSE lastCall.heap[ref]]
    /\ pc' = [pc EXCEPT ![c] = "closed"]
    /\ UNCHANGED <<endPointHandlers, middlewares, listener, acceptErr, crashed, files,
                   lastRun>>

NextHeap ==
    \/ MainRegister
    \/ StartListen
    \/ \E c \in Conns : Accept(c)
    \/ \E c \in Conns : EndpointReturns(c)
    \/ \E c \in Conns : MiddlewareReturns(c)
    \/ \E c \in Conns : HeadWritten(c)

SpecHeap == InitHeap /\ [][NextHeap]_vars

(***************************************************************************)
(* Codec specification: the functions of the wire codec, each applied to    *)
(* an input the initial state draws from a bounded set.                     *)
(***************************************************************************)
\* request lines: every string of at most MaxLineLen bytes over a letter, the
\* space and the two line-end bytes
LineAlphabet == {"G", " ", "\r", "\n"}
Lines == UNION {[1..n -> LineAlphabet] : n \in 0..MaxLineLen}

\* header lines: a name in either letter case and a value, which may be
\* empty or hold the separator itself; and a line without the separator
HeaderNames == {<<"A">>, <<"a">>, <<"B">>}
HeaderValues == {<<>>, <<"v">>, <<"w">>, <<"v", ":", " ", "w">>}
HeaderLines ==
    {n \o <<":", " ">> \o v : n \in HeaderNames, v \in HeaderValues} \cup {<<"A">>}

\* the lines, each with its line end
RECURSIVE Block(_)
Block(lines) ==
    IF lines = <<>> THEN <<>> ELSE Head(lines) \o <<"\r", "\n">> \o Block(Tail(lines))

\* header blocks of at most MaxHeaderLines lines, ended by the blank line or
\* cut before it
Blocks ==
    LET lineSeqs == UNION {[1..n -> HeaderLines] : n \in 0..MaxHeaderLines}
    IN  {Block(ls) \o end : ls \in lineSeqs, end \in {<<"\r", "\n">>, <<>>}}

\* response heads: the protocol unset or set, the statuses and reasons of
\* the templates and of a Response{}, and the header maps the handlers build
HeadHeaders ==
    { NoRespHeaders,
      [k \in {"Connection"} |-> "close"],
      TextResponse(<<"a", "b", "c", "d", "e", "f", "g", "h", "i", "j", "k", "l">>).Head.Headers }
Heads ==
    {[Protocol |-> p, Status |-> s, Reason |-> r, Headers |-> h]
        : p \in {"", "HTTP/1.1", "HTTP/1.0"},
          s \in {0, 200, 201, 404, 500},
          r \in {"", "OK", "Created", "Not Found", "Internal Server Error"},
          h \in HeadHeaders}

InitCodec ==
    /\ endPointHandlers = <<>>
    /\ lastCall \in {[op |-> "request line", line |-> line] : line \in Lines}
                    \cup {[op |-> "header block", block |-> block] : block \in Blocks}
                    \cup {[op |-> "head", head |-> head] : head \in Heads}
    /\ middlewares = <<>>
    /\ listener = "none"
    /\ acceptErr = "nil"
    /\ crashed = FALSE
    /\ pc = [c \in Conns |-> "idle"]
    /\ files = [f \in FileNames |-> Absent]
    /\ lastRun = NoRun

\* parseRequestLine is called with the line that was read
ParseRequestLine ==
    /\ lastCall.op = "request line"
    /\ lastCall' = [op |-> "parseRequestLine", line |-> lastCall.line,
                    result |-> parseRequestLine(lastCall.line)]
    /\ UNCHANGED <<endPointHandlers, serverVars>>

\* the header loop of handleRequest runs on the bytes after the request line
ReadHeaders ==
    /\ lastCall.op = "header block"
    /\ lastCall' = [op |-> "readHeaders", block |-> lastCall.block,
                    result |-> readHeaders(lastCall.block, NoHeaders)]
    /\ UNCHANGED <<endPointHandlers, serverVars>>

\* head.Bytes() returns one of the byte strings the map order allows
Serialize ==
    /\ lastCall.op = "head"
    /\ \E bytes \in Bytes(lastCall.head) :
          lastCall' = [op |-> "Bytes", head |-> lastCall.head, bytes |-> bytes]
    /\ UNCHANGED <<endPointHandlers, serverVars>>

NextCodec ==
    \/ ParseRequestLine
    \/ ReadHeaders
    \/ Serialize

SpecCodec == InitCodec /\ [][NextCodec]_vars

(***************************************************************************)
(* Overlap specification: the worker of connection 1 serves a download in   *)
(* two steps, the call of the handler and the writing of the response,      *)
(* while the worker of connection 2 serves an upload to the same file.      *)
(***************************************************************************)
\* what the client of connection 1 sends
OverlapDownloads ==
    { <<"G", "E", "T", " ", "/", "f", "i", "l", "e", "s", "/", "f", " ", "H", "T", "T", "P", "/", "1", ".", "1", "\r", "\n", "\r", "\n">>,
      <<"G", "E", "T", " ", "/", "f", "i", "l", "e", "s", "/", "f", " ", "H", "T", "T", "P", "/", "1", ".", "1", "\r", "\n", "A", "c", "c", "e", "p", "t", "-", "E", "n", "c", "o", "d", "i", "n", "g", ":", " ", "g", "z", "i", "p", "\r", "\n", "\r", "\n">> }

\* what the client of connection 2 sends
OverlapUploads ==
    { <<"P", "O", "S", "T", " ", "/", "f", "i", "l", "e", "s", "/", "f", " ", "H", "T", "T", "P", "/", "1", ".", "1", "\r", "\n", "C", "o", "n", "t", "e", "n", "t", "-", "L", "e", "n", "g", "t", "h", ":", " ", "3", "\r", "\n", "\r", "\n", "z", "w", "v">>,
      <<"P", "O", "S", "T", " ", "/", "f", "i", "l", "e", "s", "/", "f", " ", "H", "T", "T", "P", "/", "1", ".", "1", "\r", "\n", "C", "o", "n", "t", "e", "n", "t", "-", "L", "e", "n", "g", "t", "h", ":", " ", "1", "\r", "\n", "\r", "\n", "z">> }

\* the steps of handleRequest before the handler is called
StepsBeforeCall(handler) ==
    <<Event("read", "request line", "ok"), Event("read", "headers", "ok"),
      Event("getHandler", handler, "ok")>>

\* connection 1, lines 205-247: the request is read and the wrapped handler
\* returns; its result is held in lastCall until the response is written
HandlerReturns ==
    /\ ~crashed
    /\ pc[1] = "handling"
    /\ \E input \in OverlapDownloads :
         LET request == RequestOf(input)
             handler == getHandler(endPointHandlers, request.Path)
         IN  \E r \in callWrapped(middlewares, Len(middlewares), handler, request, files) :
                /\ lastCall' = [op |-> "handler", input |-> input, handler |-> handler,
                                result |-> r]
                /\ files' = r.fs
    /\ pc' = [pc EXCEPT ![1] = "writing"]
    /\ UNCHANGED <<endPointHandlers, middlewares, listener, acceptErr, crashed, lastRun>>

\* connection 1, lines 248-262 and the end of the goroutine: io.Copy reads
\* the opened file to its end, that is what the file holds by now
ResponseWritten ==
    /\ ~crashed
    /\ pc[1] = "writing"
    /\ LET r == lastCall.result
           path == RequestOf(lastCall.input).Path
           now == IF r.resp.Body.kind = "file"
                  THEN [r EXCEPT !.resp.Body.data = files[Join(Directory, parsePathArg(path).arg)],
                                 !.fs = files]
                  ELSE [r EXCEPT !.fs = files]
       IN  \E run \in workerEnds(afterHandler(lastCall.input, path,
                                              StepsBeforeCall(lastCall.handler), now)) :
              lastRun' = [conn |-> 1, run |-> run]
    /\ pc' = [pc EXCEPT ![1] = "closed"]
    /\ lastCall' = NoCall
    /\ UNCHANGED <<endPointHandlers, middlewares, listener, acceptErr, crashed, files>>

NextOverlap ==
    \/ MainRegister
    \/ StartListen
    \/ \E c \in Conns : Accept(c)
    \/ HandlerReturns
    \/ ResponseWritten
    \/ WorkerOn(2, OverlapUploads)

SpecOverlap == Init /\ [][NextOverlap]_vars
(***************************************************************************)
(* Properties of the handler registry (checked under SpecRegistry)          *)
(***************************************************************************)
\* p1 is a strict prefix of p2
StrictPrefix(p1, p2) == Len(p1) < Len(p2) /\ HasPrefix(p2, p1)

\* the entries of the registry that match the path, "/" matching only "/"
MatchingEntries(ep, path) ==
    {i \in 1..Len(ep) : IF ep[i].prefix = <<"/">>
                        THEN path = <<"/">>
                        ELSE HasPrefix(path, ep[i].prefix)}

\* the handlers registered under a longest matching prefix
LongestMatchHandlers(ep, path) ==
    {ep[i].handler : i \in {k \in MatchingEntries(ep, path) :
        \A j \in MatchingEntries(ep, path) :
            Len(ep[j].prefix) <= Len(ep[k].prefix)}}

\* C1 as stated: whenever two registered prefixes P1, P2, P1 a strict prefix
\* of P2, both match the resolved path, getHandler returns the handler
\* registered under P2.
C1_ReturnsTheLongerOfAnyPair ==
    lastCall.op = "getHandler" =>
        \A i, j \in MatchingEntries(endPointHandlers, lastCall.path) :
            StrictPrefix(endPointHandlers[i].prefix, endPointHandlers[j].prefix)
                => lastCall.handler = endPointHandlers[j].handler

\* C1 (amended): getHandler returns the handler registered under the longest
\* registered prefix that matches the path (nil when none matches); of two
\* matching prefixes P1, P2 with P1 a strict prefix of P2 the entry it
\* resolves to is never P1's, and it is P2's unless a still longer registered
\* prefix matches too.
C1_LongestMatchWins ==
    lastCall.op = "getHandler" =>
        LET ep == endPointHandlers
            m == MatchingEntries(ep, lastCall.path)
        IN  /\ (m = {}) <=> (lastCall.handler = Nil)
            /\ m # {} => LongestMatchHandlers(ep, lastCall.path) = {lastCall.handler}
            /\ \A i, j \in m :
                  StrictPrefix(ep[i].prefix, ep[j].prefix) =>
                     /\ lastCall.index # i
                     /\ (\A k \in m : Len(ep[k].prefix) <= Len(ep[j].prefix))
                            => lastCall.index = j

\* a path was resolved while two nested registered prefixes with different
\* handlers both matched it, and the longer one's handler came back
C1_Witness ==
    /\ lastCall.op = "getHandler"
    /\ \E i, j \in MatchingEntries(endPointHandlers, lastCall.path) :
          /\ StrictPrefix(endPointHandlers[i].prefix, endPointHandlers[j].prefix)
          /\ endPointHandlers[i].handler # endPointHandlers[j].handler
          /\ lastCall.handler = endPointHandlers[j].handler

\* C2: the entry registered under "/" is the one getHandler resolves to only
\* when the path is exactly "/"; for any other path the result is not taken
\* from the "/" entry, whatever else is registered.
C2_RootMatchesOnlyRoot ==
    lastCall.op = "getHandler" =>
        /\ (lastCall.index # 0 /\ endPointHandlers[lastCall.index].prefix = <<"/">>)
              => lastCall.path = <<"/">>
        /\ lastCall.path # <<"/">> =>
              lastCall.handler \in
                 {Nil} \cup {endPointHandlers[i].handler :
                               i \in {k \in 1..Len(endPointHandlers) :
                                        endPointHandlers[k].prefix # <<"/">>}}

\* a path other than "/" that starts with "/" was resolved with "/" registered
C2_Witness ==
    /\ lastCall.op = "getHandler"
    /\ lastCall.path # <<"/">>
    /\ HasPrefix(lastCall.path, <<"/">>)
    /\ IndexOfPrefix(endPointHandlers, <<"/">>) # 0

\* C3: the registry never holds two entries with the same prefix, and a
\* RegisterHandler call for a prefix already present leaves the number of
\* entries unchanged and makes its handler the one stored for that prefix.
C3_RegisterIsUpsert ==
    /\ \A i, j \in 1..Len(endPointHandlers) :
          endPointHandlers[i].prefix = endPointHandlers[j].prefix => i = j
    /\ lastCall.op = "RegisterHandler" =>
          /\ \E i \in 1..Len(endPointHandlers) :
                /\ endPointHandlers[i].prefix = lastCall.prefix
                /\ endPointHandlers[i].handler = lastCall.handler
          /\ Len(endPointHandlers) =
                IF lastCall.present THEN lastCall.lenBefore ELSE lastCall.lenBefore + 1

\* a prefix already present was registered again (the entry count kept)
C3_Witness ==
    /\ lastCall.op = "RegisterHandler"
    /\ lastCall.present
    /\ Len(endPointHandlers) = lastCall.lenBefore
    /\ Len(endPointHandlers) >= 2


\* the sequences that hold the entries of ep, each once, in some order
Reorderings(ep) ==
    {[i \in 1..Len(ep) |-> ep[f[i]]] : f \in Permutations(1..Len(ep))}

\* C35: dispatch depends only on the set of registered (prefix, handler)
\* pairs: every registry that registering the pairs of the present registry
\* in another order can leave, with any outcome of the unstable sort, resolves
\* every path to the same handler (or to none) as the present registry.
C35_DispatchIgnoresRegistrationOrder ==
    \A order \in Reorderings(endPointHandlers) :
        \A other \in RegisterAllResults({<<>>}, order) :
            \A path \in Paths :
                getHandler(other, path) = getHandler(endPointHandlers, path)

\* the registry holds two prefixes of equal length with different handlers
\* and a path that one of them matches was resolved to its handler
C35_Witness ==
    /\ lastCall.op = "getHandler"
    /\ \E i, j \in 1..Len(endPointHandlers) :
          /\ i # j
          /\ Len(endPointHandlers[i].prefix) = Len(endPointHandlers[j].prefix)
          /\ endPointHandlers[i].handler # endPointHandlers[j].handler
          /\ HasPrefix(lastCall.path, endPointHandlers[i].prefix)
          /\ lastCall.handler = endPointHandlers[i].handler
    /\ Len(endPointHandlers) = 3
(***************************************************************************)
(* Properties of the connection worker (checked under Spec)                 *)
(***************************************************************************)
\* a worker has finished; LastRun is what it did
Finished == lastRun.conn # 0
LastRun == lastRun.run

\* the positions of the steps (op, what) in a run
StepsAt(r, op, what) == {i \in 1..Len(r.ev) : r.ev[i].op = op /\ r.ev[i].what = what}

\* the steps with operation op
StepsOf(r, op) == {i \in 1..Len(r.ev) : r.ev[i].op = op}

\* the request line and the whole header block of the run were read
RequestParsed(r) == StepsAt(r, "read", "headers") # {} /\
                    \A i \in StepsAt(r, "read", "headers") : r.ev[i].res = "ok"

\* no registered prefix matches the parsed path of the run
RouteMissed(r) == RequestParsed(r) /\ MatchingEntries(endPointHandlers, r.path) = {}

\* C4: when no registered prefix matches the parsed path, no handler and no
\* middleware runs, the only thing handed to the connection by handleRequest
\* is the head "404 Not Found" without headers and without a body, and when
\* that write succeeds handleRequest returns nil: the worker writes no 500 and
\* just closes the connection.
C4_RouteMissWrites404 ==
    (Finished /\ RouteMissed(LastRun)) =>
        LET r == LastRun IN
        /\ StepsOf(r, "call") = {} /\ StepsOf(r, "middleware") = {}
        /\ Len(r.out) >= 1
        /\ r.out[1].kind = "head"
        /\ r.out[1].head.Status = 404 /\ r.out[1].head.Reason = "Not Found"
        /\ DOMAIN r.out[1].head.Headers = {}
        /\ \A i \in 1..Len(r.out) : r.out[i].kind # "body"
        /\ r.body.kind = "none"
        /\ r.out[1].n = "all" =>
              /\ r.err = "nil"
              /\ Len(r.out) = 1
              /\ StepsAt(r, "write", "500") = {}
              /\ r.ev[Len(r.ev)] = Event("close", "conn", "ok")

\* a request for a path no prefix matches was answered with a complete 404
C4_Witness ==
    /\ Finished
    /\ RouteMissed(LastRun)
    /\ LastRun.path = <<"/", "x">>
    /\ LastRun.out = <<HeadChunk(notFoundResponse.Head, "all")>>
    /\ LastRun.err = "nil"

\* C5: a panic raised while one connection is handled closes only that
\* connection: the process keeps running, the accept loop can still accept
\* and the worker of every other connection in flight can still run.
C5_PanicClosesOnlyThatConnection ==
    (Finished /\ LastRun.err = "panic") =>
        /\ ~crashed
        /\ \A d \in Conns \ {lastRun.conn} :
              /\ pc[d] = "idle" => ENABLED Accept(d)
              /\ pc[d] = "handling" => ENABLED Worker(d)

\* the header lines of stream up to the blank line hold a non-empty line
\* without ": "
RECURSIVE HasLineWithoutSeparator(_)
HasLineWithoutSeparator(stream) ==
    LET r == ReadString(stream)
        line == TrimRight(r.line, {"\r", "\n"})
    IN  IF r.err \/ line = <<>> THEN FALSE
        ELSE IF Index(line, <<":", " ">>) = 0 THEN TRUE
        ELSE HasLineWithoutSeparator(r.rest)

\* the request of the run has a valid request line and then a header line
\* without ": "
BadHeaderRequest(r) ==
    LET first == ReadString(r.input) IN
    /\ ~first.err
    /\ parseRequestLine(first.line).ok
    /\ HasLineWithoutSeparator(first.rest)

\* C6: a request with a non-empty header line that has no ": " ends with
\* handleRequest returning an error (which the worker handles like any other:
\* it attempts the 500 response); the worker does not fault.
C6_BadHeaderLineIsParseError ==
    (Finished /\ BadHeaderRequest(LastRun)) =>
        /\ LastRun.err = "error"
        /\ StepsAt(LastRun, "write", "500") # {}

\* the Body of the run's response was closed exactly once, before conn.Close()
BodyClosedOnce(r) ==
    /\ IF r.body.kind = "tmp" THEN r.rs.tmpCloses = 1 ELSE r.rs.origCloses = 1
    /\ Cardinality(StepsAt(r, "close", "body")) = 1
    /\ \A i \in StepsAt(r, "close", "body"), j \in StepsAt(r, "close", "conn") : i < j

\* C7: every Body that the wrapped handler returned to the worker is closed
\* exactly once before the connection is closed, whether the response was
\* written in full, the head write failed or the body write failed.
C7_BodyClosedOnEveryPath ==
    (Finished /\ LastRun.body.kind # "none") => BodyClosedOnce(LastRun)

\* C8: a temporary file the gzip middleware created for a request is closed
\* and removed by the time the connection is closed.
C8_TempFileRemoved ==
    (Finished /\ LastRun.rs.tmpMade) =>
        (LastRun.rs.tmpRemoved /\ LastRun.rs.tmpCloses >= 1)

\* C9: when the gzip middleware put its temporary file in the place of the
\* handler's Body, the handler's Body is closed too by the time the
\* connection is closed.
C9_OriginalBodyClosed ==
    (Finished /\ LastRun.body.kind = "tmp") => LastRun.rs.origCloses >= 1

\* C10: the worker attempts the 500 response only when no byte of a response
\* was written to the connection for the request.
C10_No500AfterBytesWritten ==
    Finished =>
        \A i \in 1..Len(LastRun.out) :
            (LastRun.out[i].kind = "head" /\ LastRun.out[i].head.Status = 500) =>
                \A j \in 1..(i - 1) : LastRun.out[j].n = "none"


(***************************************************************************)
(* Properties of one request and its response (checked under SpecServe)     *)
(***************************************************************************)
CRLF == {"\r", "\n"}

\* the number of tokens single spaces separate in line
TokenCount(line) == 1 + Cardinality({i \in 1..Len(line) : line[i] = " "})

\* the lines of stream end before a blank line
RECURSIVE HeadersTruncated(_)
HeadersTruncated(stream) ==
    LET r == ReadString(stream) IN
    IF r.err THEN TRUE
    ELSE IF TrimRight(r.line, CRLF) = <<>> THEN FALSE
    ELSE HeadersTruncated(r.rest)

\* the request line of input is cut off or has not three tokens, or the
\* header block ends before its blank line
MalformedOrTruncated(input) ==
    LET first == ReadString(input) IN
    \/ first.err
    \/ TokenCount(TrimRight(first.line, CRLF)) # 3
    \/ HeadersTruncated(first.rest)

\* C11 as claimed: after a malformed or truncated request line or header
\* block the worker sends no byte at all and closes the connection.
C11_NoBytesOnParseError ==
    (Finished /\ MalformedOrTruncated(LastRun.input)) =>
        /\ \A i \in 1..Len(LastRun.out) : LastRun.out[i].n = "none"
        /\ StepsAt(LastRun, "close", "conn") # {}

\* C11 as amended: after a malformed or truncated request line or header
\* block no handler and no middleware runs and handleRequest does not return
\* nil; when it returns an error the one thing the worker hands to the
\* connection is the 500 head, when the header loop faults first nothing is
\* written; the last step is conn.Close().
C11_ParseErrorGetsOnly500 ==
    (Finished /\ MalformedOrTruncated(LastRun.input)) =>
        LET r == LastRun IN
        /\ StepsOf(r, "call") = {} /\ StepsOf(r, "middleware") = {}
        /\ r.err \in {"error", "panic"}
        /\ r.err = "error" =>
              /\ Len(r.out) = 1
              /\ r.out[1].kind = "head" /\ r.out[1].head = errorResponse.Head
        /\ r.err = "panic" => r.out = <<>>
        /\ r.ev[Len(r.ev)] = Event("close", "conn", "ok")

\* a request line of two tokens was answered with the complete 500 head, and
\* a header block cut off before its blank line too
C11_Witness ==
    /\ Finished
    /\ LastRun.input \in { <<"G", "E", "T", " ", "/", "\r", "\n", "\r", "\n">>, <<"G", "E", "T", " ", "/", " ", "H", "T", "T", "P", "/", "1", ".", "1", "\r", "\n", "U", "s", "e", "r", "-", "A", "g", "e", "n", "t", ":", " ", "c", "\r", "\n">> }
    /\ MalformedOrTruncated(LastRun.input)
    /\ LastRun.out = <<HeadChunk(errorResponse.Head, "all")>>

\* the heads other than the 500 head that were handed to the connection
AnswerHeads(r) == {i \in 1..Len(r.out) : r.out[i].kind = "head" /\ r.out[i].head.Status # 500}

\* C12: a connection handles one request: the request line is read once, at
\* most one handler is looked up and called, at most one response is handed
\* to the connection, and the worker ends with the one conn.Close(), after
\* which nothing is read from the connection.
C12_OneRequestPerConnection ==
    Finished =>
        LET r == LastRun IN
        /\ Cardinality(StepsAt(r, "read", "request line")) = 1
        /\ Cardinality(StepsAt(r, "read", "headers")) <= 1
        /\ Cardinality(StepsOf(r, "getHandler")) <= 1
        /\ Cardinality(StepsOf(r, "call")) <= 1
        /\ Cardinality(AnswerHeads(r)) <= 1
        /\ StepsAt(r, "close", "conn") = {Len(r.ev)}
        /\ pc[lastRun.conn] = "closed"
        /\ ~ENABLED WorkerOn(lastRun.conn, ServeRequests)

\* a connection that delivered two requests got the answer to the first one
\* only
C12_Witness ==
    /\ Finished
    /\ LastRun.input \in PipelinedRequests
    /\ LastRun.out = <<HeadChunk(okResponse.Head, "all")>>
    /\ LastRun.ev[Len(LastRun.ev)] = Event("close", "conn", "ok")

\* the name of the handler the run looked up
HandlerOf(r) == r.ev[CHOOSE i \in StepsOf(r, "getHandler") : TRUE].what

\* the run called a handler and it returned a response with a Body
HandlerGaveBody(r) ==
    /\ RequestParsed(r)
    /\ \E i \in StepsOf(r, "call") : r.ev[i].res = "ok"
    /\ r.rs.origKind # "none"

\* what the gzip middleware did in the run
GzipSteps(r, results) ==
    {i \in StepsAt(r, "middleware", "gzip") : r.ev[i].res \in results}

\* v, cut at its commas, has a piece that is "gzip" with only white space
\* around it
HasGzipToken(v) ==
    \E a \in 1..(Len(v) + 1), b \in 0..Len(v) :
        /\ a <= b
        /\ a = 1 \/ v[a - 1] = ","
        /\ b = Len(v) \/ v[b + 1] = ","
        /\ \A i \in a..b : v[i] # ","
        /\ \E c \in a..(b - 3) :
              /\ SubSeq(v, c, c + 3) = <<"g", "z", "i", "p">>
              /\ \A i \in (a..(c - 1)) \cup ((c + 4)..b) : v[i] \in {" ", "\t", "\r", "\n"}

AcceptEncodingOf(r) ==
    GetHeader(RequestOf(r.input).Headers,
              <<"a", "c", "c", "e", "p", "t", "-", "e", "n", "c", "o", "d", "i", "n", "g">>)

\* C15: gzipMiddleware compresses a response that has a body exactly when
\* "gzip" is one of the trimmed, comma-separated tokens of the request's
\* accept-encoding header; when it is not, the head (status, reason,
\* headers) and the Body the handler returned are what the worker gets.
C15_GzipIffToken ==
    (Finished /\ HandlerGaveBody(LastRun)) =>
        LET r == LastRun
            request == RequestOf(r.input)
        IN  IF HasGzipToken(AcceptEncodingOf(r))
            THEN /\ GzipSteps(r, {"compressed", "error"}) # {}
                 /\ GzipSteps(r, {"not accepted", "no body"}) = {}
            ELSE /\ GzipSteps(r, {"not accepted"}) # {}
                 /\ GzipSteps(r, {"compressed", "error"}) = {}
                 /\ ~r.rs.tmpMade
                 /\ \E res \in callEndpoint(HandlerOf(r), request, r.fs) :
                        /\ ~res.err
                        /\ r.body = res.resp.Body
                        /\ r.out[1] \in {HeadChunk(res.resp.Head, n) : n \in HeadOutcomes}
                        /\ \A i \in 2..Len(r.out) :
                              \/ r.out[i].kind = "body" /\ r.out[i].data = res.resp.Body.data
                              \/ r.out[i].kind = "head" /\ r.out[i].head.Status = 500

\* "gzip" after another token and a space was honoured, and the response
\* went out compressed
C15_Witness ==
    /\ Finished
    /\ HandlerGaveBody(LastRun)
    /\ AcceptEncodingOf(LastRun) = <<"d", "e", "f", "l", "a", "t", "e", ",", " ", "g", "z", "i", "p">>
    /\ LastRun.body.kind = "tmp"
    /\ LastRun.err = "nil"

\* what a gzip reader makes of bytes: the data between the header and the
\* trailer of a well-formed stream
Gunzip(bytes) ==
    LET h == Len(GzipHeader)
        t == Len(GzipTrailer)
    IN  IF /\ Len(bytes) >= h + t
           /\ SubSeq(bytes, 1, h) = GzipHeader
           /\ SubSeq(bytes, Len(bytes) - t + 1, Len(bytes)) = GzipTrailer
        THEN [ok |-> TRUE, data |-> SubSeq(bytes, h + 1, Len(bytes) - t)]
        ELSE [ok |-> FALSE, data |-> <<>>]

\* the response of the handler (not the 500 of the worker) handed to the
\* connection in the run, if any
Answered(r) == Len(r.out) >= 1 /\ r.out[1].kind = "head" /\ r.out[1].head.Status # 500

\* C16: when a handler returned a response with a body to a request that
\* accepts gzip, the response handed to the connection has Content-Encoding
\* gzip, its one Content-Length is the number of body bytes handed to the
\* connection (the compressed ones), and these decompress to the body the
\* handler returned.
C16_GzipResponseIsConsistent ==
    (Finished /\ HandlerGaveBody(LastRun) /\ HasGzipToken(AcceptEncodingOf(LastRun))
        /\ Answered(LastRun)) =>
        LET r == LastRun
            head == r.out[1].head
            sent == IF Len(r.out) >= 2 /\ r.out[2].kind = "body" THEN r.out[2].data
                    ELSE r.body.data
        IN  /\ "Content-Encoding" \in DOMAIN head.Headers
            /\ head.Headers["Content-Encoding"] = "gzip"
            /\ "Content-Length" \in DOMAIN head.Headers
            /\ head.Headers["Content-Length"] = Len(sent)
            /\ r.out[1].n = "all" => (Len(r.out) >= 2 /\ r.out[2].kind = "body")
            /\ Gunzip(sent).ok
            /\ \E res \in callEndpoint(HandlerOf(r), RequestOf(r.input), r.fs) :
                    /\ ~res.err
                    /\ Gunzip(sent).data = res.resp.Body.data
                    /\ head.Status = res.resp.Head.Status

\* GET /echo/a accepting gzip was answered in full: the Content-Length is
\* that of the compressed body, not 1
C16_Witness ==
    /\ Finished
    /\ LastRun.input = <<"G", "E", "T", " ", "/", "e", "c", "h", "o", "/", "a", " ", "H", "T", "T", "P", "/", "1", ".", "1", "\r", "\n", "A", "c", "c", "e", "p", "t", "-", "E", "n", "c", "o", "d", "i", "n", "g", ":", " ", "g", "z", "i", "p", "\r", "\n", "\r", "\n">>
    /\ Len(LastRun.out) = 2
    /\ LastRun.out[1].n = "all" /\ LastRun.out[2].n = "all"
    /\ LastRun.out[1].head.Headers["Content-Length"] = Len(LastRun.out[2].data)
    /\ LastRun.out[1].head.Headers["Content-Length"] # 1
    /\ Gunzip(LastRun.out[2].data).data = <<"a">>

\* the bytes of a GET request for path, without headers
GetOf(path) == <<"G", "E", "T", " ">> \o path \o <<" ", "H", "T", "T", "P", "/", "1", ".", "1", "\r", "\n", "\r", "\n">>

\* the run answered a POST with 201 and the request carried a content-length
\* equal to the length of its body
Posted(r) ==
    LET request == RequestOf(r.input) IN
    /\ RequestParsed(r)
    /\ request.Method = <<"P", "O", "S", "T">>
    /\ Answered(r) /\ r.out[1].head.Status = 201
    /\ Atoi(GetHeader(request.Headers, <<"c", "o", "n", "t", "e", "n", "t", "-", "l", "e", "n", "g", "t", "h">>)).n = Len(request.Body)

\* C17: after a POST /files/{name} with body B and content-length |B| was
\* answered 201, a GET of the same path that is served next is answered 200
\* with exactly B as its body, whatever the file held before.
C17_GetReturnsPostedBody ==
    (Finished /\ Posted(LastRun)) =>
        LET request == RequestOf(LastRun.input) IN
        \A g \in workerRuns(GetOf(request.Path), endPointHandlers, middlewares, files) :
            g.err = "nil" =>
                /\ g.out[1].head.Status = 200
                /\ Len(g.out) = 2
                /\ g.out[2].data = request.Body

\* s is written as an integer: digits after an optional sign
IsInteger(s) ==
    /\ s # <<>>
    /\ \A i \in 2..Len(s) : s[i] \in Digits
    /\ s[1] \in Digits \/ (s[1] \in {"+", "-"} /\ Len(s) >= 2)

\* the run handled a POST that was routed to the files endpoint
IsUpload(r) ==
    /\ RequestParsed(r)
    /\ RequestOf(r.input).Method = <<"P", "O", "S", "T">>
    /\ StepsAt(r, "call", "filesEndpoint") # {}

ContentLengthOf(r) == GetHeader(RequestOf(r.input).Headers, <<"c", "o", "n", "t", "e", "n", "t", "-", "l", "e", "n", "g", "t", "h">>)

HasContentLength(r) == <<"c", "o", "n", "t", "e", "n", "t", "-", "l", "e", "n", "g", "t", "h">> \in DOMAIN RequestOf(r.input).Headers

\* the run handed nothing but the 500 head to the connection
Only500(r) == r.err = "error" /\ Len(r.out) = 1 /\ r.out[1].head = errorResponse.Head

\* the file of the upload could be opened
UploadOpened(r) ==
    /\ StepsAt(r, "openfile", "file") # {}
    /\ \A i \in StepsAt(r, "openfile", "file") : r.ev[i].res = "ok"

\* C18 as claimed: an upload without a content-length that parses as an
\* integer is a handler error answered with the 500 head and never with 201;
\* an upload with a valid content-length (whose file can be opened) is
\* answered 201.
C18_ValidLengthIsAlways201 ==
    (Finished /\ IsUpload(LastRun)) =>
        IF HasContentLength(LastRun) /\ IsInteger(ContentLengthOf(LastRun))
        THEN UploadOpened(LastRun) =>
                (Answered(LastRun) /\ LastRun.out[1].head.Status = 201)
        ELSE Only500(LastRun)

\* the name of the file an upload to path writes
UploadName(path) == Join(Directory, SubSeq(path, Len(<<"/", "f", "i", "l", "e", "s", "/">>) + 1, Len(path)))

\* C18 as amended: an upload without a content-length that parses as an
\* integer is a handler error answered with the 500 head and never with 201;
\* with a valid content-length N >= 0, a file that can be opened and a body of
\* at least N bytes, exactly the first N bytes of the body are written at the
\* start of the file and the 201 head is handed to the connection; a body
\* that ends before N bytes is a handler error answered with the 500 head.
C18_UploadNeedsLengthAndBody ==
    [][ (Finished' /\ IsUpload(lastRun'.run)) =>
            LET r == lastRun'.run
                request == RequestOf(r.input)
                name == UploadName(request.Path)
                N == Atoi(ContentLengthOf(r)).n
                old == IF files[name] = Absent THEN <<>> ELSE files[name]
            IN  IF ~(HasContentLength(r) /\ IsInteger(ContentLengthOf(r)))
                THEN Only500(r)
                ELSE IF UploadOpened(r) /\ N >= 0
                THEN IF Len(request.Body) >= N
                     THEN /\ Answered(r) /\ r.out[1].head.Status = 201
                          /\ files'[name] = SubSeq(request.Body, 1, N)
                                               \o SubSeq(old, N + 1, Len(old))
                     ELSE Only500(r)
                ELSE TRUE ]_vars

\* an upload with content-length 1 and a body of two bytes was answered 201
\* and the file starts with the first byte only
C18_Witness ==
    /\ Finished
    /\ IsUpload(LastRun)
    /\ ContentLengthOf(LastRun) = <<"1">>
    /\ RequestOf(LastRun.input).Body = <<"z", "w">>
    /\ LastRun.out = <<HeadChunk(SetRespHeader(createdResponse, "Connection", "close").Head, "all")>>
    /\ files[<<"f">>] \in {<<"z">>, <<"z", "y">>}

\* the run handled a request other than a POST that was routed to the files
\* endpoint
IsDownload(r) ==
    /\ RequestParsed(r)
    /\ RequestOf(r.input).Method # <<"P", "O", "S", "T">>
    /\ StepsAt(r, "call", "filesEndpoint") # {}

\* the path p, taken from the working directory, is a file of the served
\* directory "."
UnderDirectory(p) ==
    /\ p # <<>> /\ p[1] # "/"
    /\ p # <<".", ".">>
    /\ ~HasPrefix(p, <<".", ".", "/">>)

\* C19: a download is answered 200 with the bytes of a file that is under
\* the served directory, or 404 without a body when there is no such file;
\* never with what a file outside the served directory holds.
C19_OnlyFilesUnderDirectory ==
    (Finished /\ IsDownload(LastRun) /\ Answered(LastRun)) =>
        LET r == LastRun
            inside == {p \in DOMAIN files : UnderDirectory(p) /\ files[p] # Absent}
        IN  /\ r.out[1].head.Status \in {200, 404}
            /\ r.out[1].head.Status = 200 => \E p \in inside : r.body.data = files[p]
            /\ r.out[1].head.Status = 404 => r.body.kind = "none"
            /\ r.body.kind # "none" =>
                  \A p \in DOMAIN files \ inside : r.body.data # files[p]

\* the run parsed a request whose path starts with "/echo/"
IsEcho(r) == RequestParsed(r) /\ HasPrefix(RequestOf(r.input).Path, <<"/", "e", "c", "h", "o", "/">>)

\* what follows "/echo/" in the path of the run's request
Remainder(r) ==
    LET path == RequestOf(r.input).Path IN SubSeq(path, Len(<<"/", "e", "c", "h", "o", "/">>) + 1, Len(path))

\* the body bytes the run handed, or had to hand, to the connection
BodySent(r) ==
    IF Len(r.out) >= 2 /\ r.out[2].kind = "body" THEN r.out[2].data ELSE r.body.data

\* the head is 200 with Content-Type text/plain and Content-Length n
IsTextHead(head, n) ==
    /\ head.Status = 200
    /\ {"Content-Type", "Content-Length"} \subseteq DOMAIN head.Headers
    /\ head.Headers["Content-Type"] = "text/plain"
    /\ head.Headers["Content-Length"] = n

\* C20 as stated: every answer to a request whose path starts with "/echo/"
\* is 200 with Content-Type text/plain, the remainder of the path as body
\* and the remainder's length as Content-Length.
C20_EchoReturnsRemainder ==
    (Finished /\ IsEcho(LastRun) /\ Answered(LastRun)) =>
        /\ IsTextHead(LastRun.out[1].head, Len(Remainder(LastRun)))
        /\ BodySent(LastRun) = Remainder(LastRun)

\* C20: a request whose path starts with "/echo/" goes to echoEndpoint; when
\* it does not accept gzip the head handed to the connection is 200 with
\* Content-Type text/plain and Content-Length the length of the remainder of
\* the path after "/echo/", and the body is that remainder, further slashes
\* included; when it accepts gzip, an answer is 200 with Content-Type
\* text/plain, its body decompresses to the remainder and its Content-Length
\* is the length of the compressed body.
C20_EchoReturnsRemainderOrItsGzip ==
    (Finished /\ IsEcho(LastRun)) =>
        LET r == LastRun IN
        /\ HandlerOf(r) = "echoEndpoint"
        /\ IF HasGzipToken(AcceptEncodingOf(r))
           THEN Answered(r) =>
                    /\ IsTextHead(r.out[1].head, Len(BodySent(r)))
                    /\ Gunzip(BodySent(r)) = [ok |-> TRUE, data |-> Remainder(r)]
           ELSE /\ Answered(r)
                /\ IsTextHead(r.out[1].head, Len(Remainder(r)))
                /\ BodySent(r) = Remainder(r)
                /\ r.out[1].n = "all" => (Len(r.out) >= 2 /\ r.out[2].kind = "body")

\* GET /echo/a/b was answered in full: Content-Length 3 and the body "a/b"
C20_Witness ==
    /\ Finished
    /\ LastRun.input = <<"G", "E", "T", " ", "/", "e", "c", "h", "o", "/", "a", "/", "b", " ", "H", "T", "T", "P", "/", "1", ".", "1", "\r", "\n", "\r", "\n">>
    /\ Len(LastRun.out) = 2
    /\ LastRun.out[1].n = "all" /\ LastRun.out[2].n = "all"
    /\ LastRun.out[1].head.Headers["Content-Length"] = 3
    /\ LastRun.out[2].data = <<"a", "/", "b">>
    /\ LastRun.err = "nil"

(***************************************************************************)
(* Properties of the accept loop (checked under SpecAccept)                 *)
(***************************************************************************)
\* C13: the accept loop survives a transient Accept error (later connections
\* are accepted), and once an Accept has reported the closed listener the
\* loop has ended and Start has returned: no further Accept is made on the
\* closed listener.
C13_LoopEndsOnClosedListener ==
    /\ (acceptErr = "transient" /\ listener = "listening" /\ ~crashed) =>
            \A c \in Conns : pc[c] = "idle" => ENABLED Accept(c)
    /\ acceptErr = "closed" => (StartReturned /\ ~ENABLED AcceptFails)

\* C37: Server.Close returns a non-nil error only when closing the listener
\* failed; when the listener closes successfully Close returns nil.
C37_CloseErrorOnlyOnFailure ==
    lastCall.op = "Close" =>
        (lastCall.result # "nil" <=> lastCall.closeErr # "nil")

(***************************************************************************)
(* Properties of the middleware chain (checked under SpecChain)             *)
(***************************************************************************)
\* the registered name of the middleware that recorded step e
MiddlewareOf(e) == IF e.what = "gzip" THEN "gzipMiddleware" ELSE e.what

\* the names of the middlewares in the order they were entered, and in the
\* order they got hold of the result of what they wrap
RECURSIVE NamesOf(_, _)
NamesOf(ev, entering) ==
    IF ev = <<>> THEN <<>>
    ELSE IF Head(ev).op = "middleware" /\ ((Head(ev).res = "enter") <=> entering)
         THEN <<MiddlewareOf(Head(ev))>> \o NamesOf(Tail(ev), entering)
         ELSE NamesOf(Tail(ev), entering)

\* the members of seq that are in set, in order
RECURSIVE Only(_, _)
Only(seq, set) ==
    IF seq = <<>> THEN <<>>
    ELSE IF Head(seq) \in set THEN <<Head(seq)>> \o Only(Tail(seq), set)
         ELSE Only(Tail(seq), set)

Reverse(seq) == [i \in 1..Len(seq) |-> seq[Len(seq) - i + 1]]

\* C14: with mw_1..mw_n registered in that order the handler called for a
\* routed request is mw_n(...mw_1(base)): the middlewares are entered from
\* the last registered to the first, then the endpoint runs, then they get
\* the response from the first registered to the last; every request sees
\* this nesting.
C14_LastRegisteredIsOutermost ==
    (Finished /\ StepsOf(LastRun, "call") # {}) =>
        LET r == LastRun
            call == CHOOSE i \in StepsOf(r, "call") : TRUE
        IN  /\ NamesOf(r.ev, TRUE) = Reverse(Only(middlewares, TraceMiddlewares))
            /\ NamesOf(r.ev, FALSE) = middlewares
            /\ \A i \in StepsOf(r, "middleware") :
                    (r.ev[i].res = "enter") <=> (i < call)

\* a request was served through three middlewares, gzipMiddleware neither
\* the first nor the last registered
C14_Witness ==
    /\ Finished
    /\ middlewares = <<"traceA", "gzipMiddleware", "traceB">>
    /\ StepsOf(LastRun, "call") # {}
    /\ NamesOf(LastRun.ev, TRUE) = <<"traceB", "traceA">>
    /\ NamesOf(LastRun.ev, FALSE) = <<"traceA", "gzipMiddleware", "traceB">>
    /\ LastRun.err = "nil"

(***************************************************************************)
(* Claims about the endpoints, the codec and the gzip middleware, checked   *)
(* under SpecServe                                                          *)
(***************************************************************************)
\* the heads the run handed to the connection, in order
HeadsOf(r) == {r.out[i].head : i \in {j \in 1..Len(r.out) : r.out[j].kind = "head"}}

\* C21: a request to the echo route without an argument (the path is
\* "/echo/" or "/echo") is a routing error: no head with status 200 is
\* handed to the connection.
C21_MissingEchoArgIsNever200 ==
    (Finished /\ RequestParsed(LastRun)
        /\ RequestOf(LastRun.input).Path \in {<<"/", "e", "c", "h", "o", "/">>, <<"/", "e", "c", "h", "o">>}) =>
        \A head \in HeadsOf(LastRun) : head.Status # 200

\* the header lines a request carries: the lines after the request line up to
\* the blank line, without their line ends
RECURSIVE LinesUntilBlank(_)
LinesUntilBlank(stream) ==
    LET r == ReadString(stream)
        line == TrimRight(r.line, {"\r", "\n"})
    IN  IF r.err \/ line = <<>> THEN <<>>
        ELSE <<line>> \o LinesUntilBlank(r.rest)

HeaderLinesOf(input) == LinesUntilBlank(ReadString(input).rest)

\* the name and the value of a header line: what stands before and what
\* stands after the first ": "
NameOfLine(line) == SubSeq(line, 1, Index(line, <<":", " ">>) - 1)
ValueOfLine(line) == SubSeq(line, Index(line, <<":", " ">>) + 2, Len(line))

\* a and b are the same but for the case of their letters
SameLetters(a, b) ==
    /\ Len(a) = Len(b)
    /\ \A i \in 1..Len(a) :
          \/ a[i] = b[i]
          \/ \E j \in DOMAIN UpperCase : {a[i], b[i]} = {UpperCase[j], LowerCase[j]}

\* which of the lines carry the header name, in any letter case
LinesNamed(lines, name) ==
    {i \in 1..Len(lines) : SameLetters(NameOfLine(lines[i]), name)}

\* the last of the lines that carry the header name
LastNamed(lines, name) ==
    lines[CHOOSE i \in LinesNamed(lines, name) : \A j \in LinesNamed(lines, name) : j <= i]

\* the value the request gives for the header name: that of its last line
\* with the name, "" when there is none
SentValue(input, name) ==
    IF LinesNamed(HeaderLinesOf(input), name) = {} THEN <<>>
    ELSE ValueOfLine(LastNamed(HeaderLinesOf(input), name))

\* the run parsed a GET for /user-agent that does not accept gzip
IsUserAgentQuery(r) ==
    /\ RequestParsed(r)
    /\ RequestOf(r.input).Method = <<"G", "E", "T">>
    /\ RequestOf(r.input).Path = <<"/", "u", "s", "e", "r", "-", "a", "g", "e", "n", "t">>
    /\ ~HasGzipToken(SentValue(r.input, <<"a", "c", "c", "e", "p", "t", "-", "e", "n", "c", "o", "d", "i", "n", "g">>))

\* C22: GET /user-agent is answered 200 with Content-Type text/plain, the
\* value the request gives for the user-agent header (the name in any letter
\* case; empty when the header is absent) as body and the length of the body
\* as Content-Length. Stated for the uncompressed answer, that is for requests
\* that do not accept gzip.
C22_UserAgentIsReturned ==
    (Finished /\ IsUserAgentQuery(LastRun)) =>
        /\ Answered(LastRun)
        /\ IsTextHead(LastRun.out[1].head, Len(BodySent(LastRun)))
        /\ BodySent(LastRun) = SentValue(LastRun.input, <<"u", "s", "e", "r", "-", "a", "g", "e", "n", "t">>)

\* the bytes of the 500 response
FixedErrorBytes == <<"H", "T", "T", "P", "/", "1", ".", "1", " ", "5", "0", "0", " ", "I", "n", "t", "e", "r", "n", "a", "l", " ", "S", "e", "r", "v", "e", "r", " ", "E", "r", "r", "o", "r", "\r", "\n", "\r", "\n">>

\* the steps of the run that wrote a response other than the worker's 500
ResponseWrites(r) == {i \in StepsOf(r, "write") : r.ev[i].what # "500"}

GzipFailed(r) == GzipSteps(r, {"error"}) # {}

\* C28: when a step of the gzip middleware fails, the middleware returns an
\* error (handleRequest returns it and writes no response), the Body the
\* handler returned is closed, and a temporary file that was created is
\* closed and removed.
C28_GzipFailureReleasesAll ==
    (Finished /\ GzipFailed(LastRun)) =>
        LET r == LastRun IN
        /\ r.err = "error"
        /\ ResponseWrites(r) = {}
        /\ r.rs.origCloses >= 1
        /\ r.rs.tmpMade => (r.rs.tmpCloses >= 1 /\ r.rs.tmpRemoved)

\* the handler the run called returned an error
HandlerErred(r) == \E i \in StepsOf(r, "call") : r.ev[i].res = "error"

\* C29: when the handler returns an error, the gzip middleware does nothing
\* but return an error: it compresses nothing, creates no temporary file and
\* sets no header; handleRequest returns the error without writing a
\* response, and the worker answers with the 500 head alone.
C29_HandlerErrorPassesThrough ==
    (Finished /\ HandlerErred(LastRun)) =>
        LET r == LastRun IN
        /\ GzipSteps(r, {"handler error"}) # {}
        /\ GzipSteps(r, {"compressed", "error", "not accepted", "no body"}) = {}
        /\ StepsOf(r, "createTemp") = {}
        /\ ~r.rs.tmpMade
        /\ r.err = "error"
        /\ ResponseWrites(r) = {}
        /\ Len(r.out) = 1 /\ r.out[1].head = errorResponse.Head

\* an upload without content-length that accepts gzip: the handler failed and
\* the 500 head went out
C29_Witness ==
    /\ Finished
    /\ LastRun.input = <<"P", "O", "S", "T", " ", "/", "f", "i", "l", "e", "s", "/", "f", " ", "H", "T", "T", "P", "/", "1", ".", "1", "\r", "\n", "A", "c", "c", "e", "p", "t", "-", "E", "n", "c", "o", "d", "i", "n", "g", ":", " ", "g", "z", "i", "p", "\r", "\n", "\r", "\n", "z">>
    /\ HandlerErred(LastRun)
    /\ GzipSteps(LastRun, {"handler error"}) # {}
    /\ LastRun.out = <<HeadChunk(errorResponse.Head, "all")>>

\* the handler of the run returned a response without a Body or with a Body
\* of no bytes
HandlerGaveNoBytes(r) ==
    /\ RequestParsed(r)
    /\ \E i \in StepsOf(r, "call") : r.ev[i].res = "ok"
    /\ \A res \in callEndpoint(HandlerOf(r), RequestOf(r.input), r.fs) :
          ~res.err => res.resp.Body.data = <<>>

\* C30: a response without a Body or with a Body of no bytes is not
\* compressed, whatever the request accepts: no temporary file is created and
\* the head handed to the connection has no Content-Encoding.
C30_EmptyBodyIsNotCompressed ==
    (Finished /\ HandlerGaveNoBytes(LastRun)) =>
        LET r == LastRun IN
        /\ GzipSteps(r, {"compressed", "error"}) = {}
        /\ ~r.rs.tmpMade
        /\ \A head \in HeadsOf(r) : "Content-Encoding" \notin DOMAIN head.Headers

\* in the run, a step (op, what) with a result of results comes before step i
Before(r, op, what, results, i) ==
    \E j \in StepsAt(r, op, what) : j < i /\ r.ev[j].res \in results

\* the order of the phases for the writes of the steps ws: the request line
\* and the header block were read and the handler looked up before the write;
\* a head is written after the handler was called; a body is written after
\* the head was written in full
PhasesOrdered(r, ws) ==
    \A i \in ws :
        /\ Before(r, "read", "request line", {"ok"}, i)
        /\ Before(r, "read", "headers", {"ok"}, i)
        /\ \E j \in StepsOf(r, "getHandler") : j < i
        /\ r.ev[i].what = "head" => \E j \in StepsOf(r, "call") : j < i
        /\ r.ev[i].what = "body" => Before(r, "write", "head", {"all"}, i)

\* C32 as stated: every write to the connection, the 500 of the worker
\* included, comes after the request line and the whole header block were
\* parsed and the route resolved.
C32_NoWriteBeforeParsed ==
    Finished => PhasesOrdered(LastRun, StepsOf(LastRun, "write"))

\* C32: the writes of handleRequest (the 404 of a route miss, the head and
\* the body of a handler's response) come after the request line and the
\* whole header block were parsed and the route resolved; the handler is
\* called before the head of its response is written, and the head is written
\* in full before the body. The 500 of the worker is written after
\* handleRequest returned an error, as the last step before the connection is
\* closed, which can be before the headers were parsed.
C32_PhasesInOrder ==
    Finished =>
        LET r == LastRun IN
        /\ PhasesOrdered(r, ResponseWrites(r))
        /\ \A i \in StepsAt(r, "write", "500") :
              /\ r.err = "error"
              /\ i = Len(r.ev) - 1
              /\ r.ev[Len(r.ev)] = Event("close", "conn", "ok")

\* GET /echo/a was answered in full: read, read, lookup, call, middleware,
\* head, body, in this order
C32_Witness ==
    /\ Finished
    /\ LastRun.input = <<"G", "E", "T", " ", "/", "e", "c", "h", "o", "/", "a", " ", "H", "T", "T", "P", "/", "1", ".", "1", "\r", "\n", "\r", "\n">>
    /\ LastRun.err = "nil"
    /\ \E h \in StepsAt(LastRun, "write", "head"), b \in StepsAt(LastRun, "write", "body") :
          /\ h < b
          /\ \E c \in StepsOf(LastRun, "call") : c < h
          /\ LastRun.ev[b].res = "all"

(***************************************************************************)
(* Claims about the wire codec, checked under SpecCodec                     *)
(***************************************************************************)
\* s without the "\r" and "\n" bytes at its end
StripLineEnd(s) ==
    SubSeq(s, 1, CHOOSE k \in 0..Len(s) :
                    /\ k = 0 \/ s[k] \notin {"\r", "\n"}
                    /\ \A j \in (k + 1)..Len(s) : s[j] \in {"\r", "\n"})

\* where s has a space
SpacesOf(s) == {i \in 1..Len(s) : s[i] = " "}

\* C24: parseRequestLine succeeds exactly when the line, without the line
\* end bytes at its end, has two single spaces, that is three tokens; the
\* method, the path and the protocol it returns are these tokens unchanged.
\* Every other number of tokens is an error: the empty line, one or two
\* tokens, and the four or more tokens of a line with a doubled space
\* between three words.
C24_ThreeTokensExactly ==
    lastCall.op = "parseRequestLine" =>
        LET s == StripLineEnd(lastCall.line)
            res == lastCall.result
        IN  /\ res.ok <=> Cardinality(SpacesOf(s)) = 2
            /\ res.ok =>
                  /\ res.Method \o <<" ">> \o res.Path \o <<" ">> \o res.Protocol = s
                  /\ SpacesOf(res.Method) = {} /\ SpacesOf(res.Path) = {}
                  /\ SpacesOf(res.Protocol) = {}

\* a line of three words with its line end was parsed
C24_Witness ==
    /\ lastCall.op = "parseRequestLine"
    /\ lastCall.line = <<"G", " ", "G", " ", "G", "\r", "\n">>
    /\ lastCall.result = [ok |-> TRUE, Method |-> <<"G">>, Path |-> <<"G">>,
                          Protocol |-> <<"G">>]

\* the header loop read the block up to its blank line
HeadersRead == lastCall.op = "readHeaders" /\ lastCall.result.res = "ok"

\* C25: the value stored for a header line is everything after the first
\* ": " of the line: for each name, the map holds what follows the first
\* ": " in the last line with that name, a later ": " included.
C25_ValueIsAllAfterFirstSeparator ==
    HeadersRead =>
        LET lines == LinesUntilBlank(lastCall.block)
            headers == lastCall.result.headers
        IN  \A k \in DOMAIN headers :
                /\ LinesNamed(lines, k) # {}
                /\ headers[k] = ValueOfLine(LastNamed(lines, k))

\* s has no upper-case letter
IsLowerCased(s) == \A i \in 1..Len(s) : \A j \in DOMAIN UpperCase : s[i] # UpperCase[j]

\* what the header loop stores when line is the only line of the block
StoredAlone(line) == readHeaders(line \o <<"\r", "\n", "\r", "\n">>, NoHeaders).headers

ParseStatusLine(bytes) ==
    LET line == TrimRight(ReadString(bytes).line, {"\r", "\n"})
        i == Index(line, <<" ">>)
        rest == SubSeq(line, i + 1, Len(line))
        j == Index(rest, <<" ">>)
    IN  IF i = 0 \/ j = 0 \/ ~Atoi(SubSeq(rest, 1, j - 1)).ok
        THEN [ok |-> FALSE, version |-> <<>>, status |-> 0, reason |-> <<>>]
        ELSE [ok |-> TRUE, version |-> SubSeq(line, 1, i - 1),
              status |-> Atoi(SubSeq(rest, 1, j - 1)).n,
              reason |-> SubSeq(rest, j + 1, Len(rest))]

\* C27: the first line of the bytes of a head parses back to the head's
\* protocol ("HTTP/1.1" when it is unset), its status code and its reason,
\* whether the reason is empty, one word or several.
C27_StatusLineRoundTrip ==
    lastCall.op = "Bytes" =>
        LET head == lastCall.head
            parsed == ParseStatusLine(lastCall.bytes)
        IN  /\ parsed.ok
            /\ parsed.version = IF head.Protocol = "" THEN <<"H", "T", "T", "P", "/", "1", ".", "1">> ELSE Text[head.Protocol]
            /\ parsed.status = head.Status
            /\ parsed.reason = Text[head.Reason]

\* the 404 template was serialized: the reason with its space came back
C27_Witness ==
    /\ lastCall.op = "Bytes"
    /\ lastCall.head = notFoundResponse.Head
    /\ lastCall.bytes = <<"H", "T", "T", "P", "/", "1", ".", "1", " ", "4", "0", "4", " ", "N", "o", "t", " ", "F", "o", "u", "n", "d", "\r", "\n", "\r", "\n">>
    /\ ParseStatusLine(lastCall.bytes).reason = <<"N", "o", "t", " ", "F", "o", "u", "n", "d">>

(***************************************************************************)
(* Claims about overlapping requests, checked under SpecOverlap             *)
(***************************************************************************)
\* C31: when the head of a response has a Content-Length and the body was
\* written to the connection in full, the number of body bytes written is the
\* Content-Length, also for a download that overlaps an upload to the same
\* file.
C31_ContentLengthIsBodyLength ==
    Finished =>
        LET out == LastRun.out IN
        (/\ Len(out) >= 2
         /\ out[1].kind = "head" /\ "Content-Length" \in DOMAIN out[1].head.Headers
         /\ out[2].kind = "body" /\ out[2].n = "all") =>
            Len(out[2].data) = out[1].head.Headers["Content-Length"]

(***************************************************************************)
(* Properties of the shared state (checked under SpecHeap)                  *)
(***************************************************************************)
\* no map is the Headers of the responses of two workers, or of the response
\* of a worker and of a template
NoMapShared ==
    \A c \in Conns :
        lastCall.held[c].ref # 0 =>
            /\ \A d \in Conns \ {c} : lastCall.held[d].ref # lastCall.held[c].ref
            /\ \A t \in TemplateNames : lastCall.templates[t].ref # lastCall.held[c].ref

\* C34: handling requests never mutates shared state: whatever step a worker
\* takes, on any route and with or without gzip, the response templates
\* okResponse, createdResponse, notFoundResponse and errorResponse (and a map
\* a template refers to), the handler registry and the middleware list are
\* what they were before the step, and afterwards no header map is shared
\* between two responses.
C34_ServingLeavesSharedStateAlone ==
    [][ listener = "listening" =>
          /\ lastCall'.templates = lastCall.templates
          /\ \A t \in TemplateNames :
                lastCall.templates[t].ref # 0 =>
                    lastCall'.heap[lastCall.templates[t].ref]
                        = lastCall.heap[lastCall.templates[t].ref]
          /\ endPointHandlers' = endPointHandlers
          /\ middlewares' = middlewares
          /\ NoMapShared' ]_vars

\* both workers wrote a response whose headers are a map of its own, one of
\* them after gzipMiddleware assigned Content-Encoding to it, while the other
\* was sent without that header
C34_Witness ==
    /\ \A c \in Conns : pc[c] = "closed" /\ lastCall.held[c].ref # 0
    /\ \E c, d \in Conns :
          /\ "Content-Encoding" \in DOMAIN lastCall.held[c].sent
          /\ "Content-Encoding" \notin DOMAIN lastCall.held[d].sent
          /\ "Content-Type" \in DOMAIN lastCall.held[d].sent

(***************************************************************************)
(* Claims about concurrent connections, checked under Spec                  *)
(***************************************************************************)
\* C33: while the worker of one connection has not returned (its client is
\* silent, a read, a write or the handler takes long), the accept loop
\* accepts the other connection and the other connection's worker can run to
\* its end.
C33_BlockedWorkerBlocksNobody ==
    \A c, d \in Conns :
        (c # d /\ pc[c] = "handling" /\ ~crashed) =>
            /\ (listener = "listening" /\ pc[d] = "idle") => ENABLED Accept(d)
            /\ pc[d] = "handling" => ENABLED Worker(d)

\* connection 2 was accepted and served to its end while the worker of
\* connection 1 had not returned
C33_Witness ==
    /\ pc[1] = "handling"
    /\ pc[2] = "closed"
    /\ lastRun.conn = 2
    /\ lastRun.run.err = "nil"

\* the upload of the run ended in one of the errors of the content-length: the
\* header is missing, does not parse, or counts more bytes than the body has
UploadFailed(r) ==
    /\ IsUpload(r)
    /\ r.err = "error"
    /\ \/ ~(HasContentLength(r) /\ IsInteger(ContentLengthOf(r)))
       \/ Len(RequestOf(r.input).Body) < Atoi(ContentLengthOf(r)).n

\* C36: a POST /files/{name} that ends in an error (content-length missing
\* or unparsable, or the body ending before content-length bytes arrived)
\* leaves the served directory unchanged: no file is created and no existing
\* file is modified.
C36_FailedUploadLeavesDirectory ==
    [][ (Finished' /\ lastRun' # lastRun /\ UploadFailed(lastRun'.run)) =>
            files' = files ]_vars

(***************************************************************************)
(* Server specification with scheduling: the goroutine of every accepted    *)
(* connection is scheduled, and each of its reads and writes returns, for   *)
(* as long as the process runs.                                             *)
(***************************************************************************)
\* what the clients of this specification send: a connection that ends
\* before a line was sent, a request that is served, a route miss, a request
\* line that does not parse, an upload the handler refuses, a header line
\* without ": ", and a request answered with a body
LiveRequests ==
    { <<"G", "E", "T", " ", "/">>,
      <<"G", "E", "T", " ", "/", " ", "H", "T", "T", "P", "/", "1", ".", "1", "\r", "\n", "\r", "\n">>,
      <<"G", "E", "T", " ", "/", "x", " ", "H", "T", "T", "P", "/", "1", ".", "1", "\r", "\n", "\r", "\n">>,
      <<"G", "E", "T", " ", "/", "\r", "\n", "\r", "\n">>,
      <<"P", "O", "S", "T", " ", "/", "f", "i", "l", "e", "s", "/", "f", " ", "H", "T", "T", "P", "/", "1", ".", "1", "\r", "\n", "\r", "\n">>,
      <<"G", "E", "T", " ", "/", " ", "H", "T", "T", "P", "/", "1", ".", "1", "\r", "\n", "H", "o", "s", "t", "\r", "\n", "\r", "\n">>,
      <<"G", "E", "T", " ", "/", "e", "c", "h", "o", "/", "a", " ", "H", "T", "T", "P", "/", "1", ".", "1", "\r", "\n", "\r", "\n">> }

\* the goroutine started for connection c (go func() of Server.Start)
Goroutine(c) == WorkerOn(c, LiveRequests)

NextLive ==
    \/ MainRegister
    \/ StartListen
    \/ \E c \in Conns : Accept(c)
    \/ \E c \in Conns : Goroutine(c)

SpecLive == Init /\ [][NextLive]_vars /\ \A c \in Conns : WF_vars(Goroutine(c))

\* C38: with every blocking read and write on the connection returning in
\* the end, every accepted connection is eventually closed by its worker,
\* whichever path (success, route miss, parse error, handler error, write
\* error) the request takes.
C38_AcceptedIsEventuallyClosed ==
    \A c \in Conns : (pc[c] = "handling") ~> (pc[c] = "closed")
=============================================================================
